---- MODULE Spec2Model ----
(***************************************************************************)
(* A model of the dental voice bot: the slot table of app/schedule.py, the *)
(* transcript and call-summary persistence of app/persistence.py and the   *)
(* per-call dialogue state machine of main.py.                             *)
(*                                                                         *)
(* The specifications share the variables:                                 *)
(*   Spec       the call engine: gateway events handled one at a time      *)
(*   SpecEvents the same events with few utterances, and events that carry *)
(*              no call identifier                                         *)
(*   SpecCalls  two calls in progress at once, booking the same slot       *)
(*   SpecRebook one caller who books twice in a call                       *)
(*   SpecStore  threads operating on the call-state map at once            *)
(*   SpecSched  the slot-table operations applied one call at a time to    *)
(*              arbitrary tables                                           *)
(*   SpecRace   reserve_slot calls of concurrent requests, interleaved at  *)
(*              their load / check / save / log steps                      *)
(***************************************************************************)
EXTENDS Integers, Sequences, FiniteSets, TLC

VARIABLES
    table,      \* data/schedule.csv: the rows, in storage order
    bookings,   \* data/bookings.csv: the lines appended so far
    out,        \* the last slot-table operation and its result (SpecSched)
    procs,      \* the reserve_slot calls in flight (SpecRace)
    calls,      \* main._call_states: call identifier -> call state
    transcripts,\* persistence._TRANSCRIPTS: call identifier -> line buffer,
                \* kept as "empty" or "lines" (at least one line)
    files,      \* transcripts/: the transcript files written, in order
    callLog,    \* data/calls.jsonl: the call summaries appended
    bookingRequests, \* data/bookings.csv as persistence.append_booking fills it
    ended,      \* the calls the "Ending call" log line was written for
    resp,       \* the last directive returned to the gateway by a turn
    gateway,    \* per call, where the gateway sends the next gather result
    late,       \* events delivered for calls already reported completed
    store       \* the call-state map as concurrent threads operate on it
                \* (SpecStore): the map, its lock, the threads, the objects
                \* allocated and the removals done

vars == <<table, bookings, out, procs, calls, transcripts, files, callLog,
          bookingRequests, ended, resp, gateway, late, store>>

\* The variables of the call engine, which the slot-table specifications
\* leave alone.
callVars == <<calls, transcripts, files, callLog, bookingRequests, ended,
              resp, gateway, late, store>>

\* The absent value: Python's None, a missing dict key, an empty string.
None == "None"
\* The absent value where a date or a time is expected.
NoDate == 0 - 1
NoTime == 0 - 1

(***************************************************************************)
(* Bounds.                                                                 *)
(***************************************************************************)
\* Rows of a slot table drawn by SpecSched.
MaxRows == 2
\* Largest limit passed to list_available by SpecSched.
MaxLimit == 2
\* Concurrent reserve_slot calls in SpecRace.
NumProcs == 2

(***************************************************************************)
(* Value sets the inputs are drawn from.  A date is a day number counted   *)
(* from today (today = 0); a start time is the HH:MM string read as the    *)
(* number HHMM, which orders as the zero-padded string does.               *)
(***************************************************************************)
Dates == {1, 2}
Times == {900, 1600}
Names == {"Alice", "Bob"}
ApptInputs == {"Hygiene"}

\* schedule.APPT_TYPES
APPT_TYPES == <<"Check-up", "Hygiene", "Whitening", "Filling", "Emergency">>

(***************************************************************************)
(* app/schedule.py                                                         *)
(***************************************************************************)
\* One row of the table (the columns the operations read or write).
AvailableRow(d, t) ==
    [date |-> d, start_time |-> t, status |-> "Available",
     patient_name |-> None, appointment_type |-> None]

BookedRow(d, t, n, a) ==
    [date |-> d, start_time |-> t, status |-> "Booked",
     patient_name |-> n, appointment_type |-> a]

\* No row: the None that find_next_available returns.
NoRow ==
    [date |-> NoDate, start_time |-> NoTime, status |-> None,
     patient_name |-> None, appointment_type |-> None]

\* No slot-table operation observed yet.
NoOut ==
    [op |-> "none", date |-> NoDate, start_time |-> NoTime, limit |-> 0,
     name |-> None, appt_type |-> None, ok |-> FALSE, rows |-> <<>>]

\* A request that has not entered reserve_slot.
IdleProc ==
    [pc |-> "idle", date |-> NoDate, start_time |-> NoTime, name |-> None,
     appt_type |-> None, df |-> <<>>, result |-> FALSE]

\* df[df["status"] == "Available"]: the Available rows, in storage order.
RECURSIVE AvailableRows(_)
AvailableRows(rows) ==
    IF rows = <<>> THEN <<>>
    ELSE IF Head(rows).status = "Available"
         THEN <<Head(rows)>> \o AvailableRows(Tail(rows))
         ELSE AvailableRows(Tail(rows))

\* avail[avail["date"] == date]: the rows of a date, in storage order.
RECURSIVE RowsOnDate(_, _)
RowsOnDate(rows, date) ==
    IF rows = <<>> THEN <<>>
    ELSE IF Head(rows).date = date
         THEN <<Head(rows)>> \o RowsOnDate(Tail(rows), date)
         ELSE RowsOnDate(Tail(rows), date)

\* df.head(count)
HeadRows(rows, count) ==
    IF count >= Len(rows) THEN rows ELSE SubSeq(rows, 1, count)

\* list_available with the status filter left out.
ListAvailable_NoStatusFilter(df, date, limit) ==
    IF df = <<>> THEN <<>>
    ELSE LET avail == IF date # NoDate THEN RowsOnDate(df, date) ELSE df
         IN IF avail = <<>> THEN <<>> ELSE HeadRows(avail, limit)

\* list_available(date, limit)
ListAvailable(df, date, limit) ==
    IF df = <<>> THEN <<>>
    ELSE LET avail  == AvailableRows(df)
             onDate == IF date # NoDate THEN RowsOnDate(avail, date) ELSE avail
         IN IF onDate = <<>> THEN <<>> ELSE HeadRows(onDate, limit)

\* find_next_available(after_date): the first Available row in storage order.
FindNextAvailable(df) ==
    LET avail == AvailableRows(df)
    IN IF avail = <<>> THEN NoRow ELSE Head(avail)

\* mask = (df["date"] == date) & (df["start_time"] == start_time), as indices.
MaskIndices(df, date, start_time) ==
    {i \in DOMAIN df : df[i].date = date /\ df[i].start_time = start_time}

MinOf(S) == CHOOSE x \in S : \A y \in S : x <= y

\* df.loc[mask, ...] = ...: the three assignments of reserve_slot.
BookRows(df, idx, name, appt_type) ==
    [i \in DOMAIN df |->
        IF i \in idx
        THEN [df[i] EXCEPT !.status = "Booked", !.patient_name = name,
                           !.appointment_type = appt_type]
        ELSE df[i]]

\* The local part of reserve_slot between load_schedule and save_schedule:
\* ok is what the two early returns decide, df the frame to be saved.
ReserveCheck(df, date, start_time, name, appt_type) ==
    LET idx == MaskIndices(df, date, start_time)
    IN IF idx = {} THEN [ok |-> FALSE, df |-> df]
       ELSE IF df[MinOf(idx)].status # "Available" THEN [ok |-> FALSE, df |-> df]
       ELSE [ok |-> TRUE, df |-> BookRows(df, idx, name, appt_type)]

\* reserve_slot without the test of the row's status.
ReserveSlot_NoStatusCheck(tbl, log, date, start_time, name, appt_type) ==
    LET idx == MaskIndices(tbl, date, start_time)
    IN IF idx = {} THEN [ok |-> FALSE, table |-> tbl, bookings |-> log]
       ELSE [ok |-> TRUE,
             table |-> BookRows(tbl, idx, name, appt_type),
             bookings |-> Append(log, <<date, start_time, name, appt_type>>)]

\* reserve_slot that books every row of the date.
ReserveSlot_WholeDate(tbl, log, date, start_time, name, appt_type) ==
    LET r == ReserveCheck(tbl, date, start_time, name, appt_type)
    IN IF r.ok
       THEN [ok |-> TRUE,
             table |-> BookRows(tbl, {i \in DOMAIN tbl : tbl[i].date = date},
                                name, appt_type),
             bookings |-> Append(log, <<date, start_time, name, appt_type>>)]
       ELSE [ok |-> FALSE, table |-> tbl, bookings |-> log]

\* reserve_slot(date, start_time, name, appt_type) run without interruption:
\* the value returned, the table as saved and the bookings log as appended.
ReserveSlot(tbl, log, date, start_time, name, appt_type) ==
    LET r == ReserveCheck(tbl, date, start_time, name, appt_type)
    IN IF r.ok
       THEN [ok |-> TRUE, table |-> r.df,
             bookings |-> Append(log, <<date, start_time, name, appt_type>>)]
       ELSE [ok |-> FALSE, table |-> tbl, bookings |-> log]

(***************************************************************************)
(* Caller utterances.  An utterance is the text together with what the     *)
(* text scans of app/intent.py, app/nlp.py and main.py find in it: the     *)
(* keyword classes _any_fuzzy matches, the synonym and keyword table hits, *)
(* membership of the literal phrase sets, the day phrase, the digits of    *)
(* the time expression and the first alphabetic word.                      *)
(***************************************************************************)
U0 ==
    [text |-> "", kw |-> {}, garage |-> None, explicit |-> FALSE,
     svc |-> None, apptkw |-> None, typeword |-> None,
     neg |-> FALSE, pos |-> FALSE, anytime |-> FALSE,
     day |-> "none", wd |-> 0,
     tkind |-> "none", th |-> 0, tm |-> 0, ampm |-> None,
     name |-> None]

\* No SpeechResult: the caller said nothing.
Silence == U0

U_bye      == [U0 EXCEPT !.text = "bye", !.kw = {"goodbye"}, !.name = "Bye"]
U_no       == [U0 EXCEPT !.text = "no", !.neg = TRUE, !.name = "No"]
U_yes      == [U0 EXCEPT !.text = "yes", !.kw = {"affirm"}, !.pos = TRUE,
                         !.name = "Yes"]
U_book     == [U0 EXCEPT !.text = "book", !.kw = {"booking"},
                         !.explicit = TRUE, !.name = "Book"]
U_bookhyg  == [U0 EXCEPT !.text = "book a hygiene appointment",
                         !.kw = {"booking"}, !.explicit = TRUE,
                         !.svc = "hygiene", !.apptkw = "Hygiene",
                         !.name = "Book"]
U_hours    == [U0 EXCEPT !.text = "hours", !.kw = {"hours"}, !.name = "Hours"]
U_howmuch  == [U0 EXCEPT !.text = "how much", !.kw = {"price", "quote"},
                         !.name = "How"]
U_whiten   == [U0 EXCEPT !.text = "how much is whitening",
                         !.kw = {"price", "quote"}, !.svc = "whitening",
                         !.apptkw = "Whitening", !.name = "How"]
U_tomorrow == [U0 EXCEPT !.text = "tomorrow", !.kw = {"availability"},
                         !.day = "tomorrow", !.name = "Tomorrow"]
U_wed      == [U0 EXCEPT !.text = "wed", !.day = "weekday", !.wd = 2,
                         !.name = "Wed"]
U_9        == [U0 EXCEPT !.text = "9", !.tkind = "hour", !.th = 9]
U_4pm      == [U0 EXCEPT !.text = "4 pm", !.tkind = "hour", !.th = 4,
                         !.ampm = "pm", !.name = "Pm"]
U_jane     == [U0 EXCEPT !.text = "jane", !.name = "Jane"]

U_whenever == [U0 EXCEPT !.text = "whenever", !.anytime = TRUE,
                         !.name = "Whenever"]
U_anytime  == [U0 EXCEPT !.text = "anytime", !.kw = {"availability"},
                         !.anytime = TRUE, !.name = "Anytime"]

\* The caller says an hour and a marker: "4 pm", "12 am".
ClockUtterance(h, ampm) ==
    [U0 EXCEPT !.text = ToString(h) \o " " \o ampm, !.tkind = "hour",
               !.th = h, !.ampm = ampm,
               !.name = IF ampm = "pm" THEN "Pm" ELSE "Am"]
U_4        == [U0 EXCEPT !.text = "4", !.tkind = "hour", !.th = 4]
U_16       == [U0 EXCEPT !.text = "16", !.tkind = "hour", !.th = 16]
U_430      == [U0 EXCEPT !.text = "430", !.tkind = "run", !.th = 4,
                         !.tm = 30]
U_4colon30 == [U0 EXCEPT !.text = "4:30", !.tkind = "colon", !.th = 4,
                         !.tm = 30]
U_4space30 == [U0 EXCEPT !.text = "4 30", !.tkind = "space", !.th = 4,
                         !.tm = 30]

\* calendar.day_name and the keys of nlp.WEEKDAYS, Monday first.
DayNames ==
    <<"Monday", "Tuesday", "Wednesday", "Thursday", "Friday", "Saturday",
      "Sunday">>
WEEKDAYS ==
    <<"monday", "tuesday", "wednesday", "thursday", "friday", "saturday",
      "sunday">>

\* The caller says the name of the weekday with index idx (Monday is 0).
\* Every name is, or is one letter away from, an availability keyword.
WeekdayUtterance(idx) ==
    [U0 EXCEPT !.text = WEEKDAYS[idx + 1], !.kw = {"availability"},
               !.day = "weekday", !.wd = idx, !.name = DayNames[idx + 1]]

U_today    == [U0 EXCEPT !.text = "today", !.kw = {"availability"},
                         !.day = "today", !.name = "Today"]

\* The keyword classes classify scans for with _any_fuzzy.
KeywordClasses ==
    {"goodbye", "quote", "price", "booking", "address", "availability",
     "hours", "affirm"}

\* One word per scan of classify, in the order they are spoken: a keyword
\* of each class that no other class matches, a garage keyword, a word
\* that holds "book" without being a booking keyword, a service synonym.
ClassWords(kw, garage, explicit, svc) ==
    LET all == <<[on |-> "goodbye" \in kw, word |-> "bye", cap |-> "Bye"],
                 [on |-> "quote" \in kw, word |-> "quote", cap |-> "Quote"],
                 [on |-> "price" \in kw, word |-> "cost", cap |-> "Cost"],
                 [on |-> "booking" \in kw /\ explicit, word |-> "book",
                  cap |-> "Book"],
                 [on |-> "booking" \in kw /\ ~explicit, word |-> "slot",
                  cap |-> "Slot"],
                 [on |-> "address" \in kw, word |-> "postcode",
                  cap |-> "Postcode"],
                 [on |-> "availability" \in kw, word |-> "available",
                  cap |-> "Available"],
                 [on |-> "hours" \in kw, word |-> "hours", cap |-> "Hours"],
                 [on |-> "affirm" \in kw, word |-> "yes", cap |-> "Yes"],
                 [on |-> garage # None, word |-> "mot", cap |-> "Mot"],
                 [on |-> "booking" \notin kw /\ explicit,
                  word |-> "facebook", cap |-> "Facebook"],
                 [on |-> svc # None, word |-> "hygiene", cap |-> "Hygiene"]>>
        Said(w) == w.on
    IN SelectSeq(all, Said)

\* The words of a sequence joined by single spaces.
RECURSIVE JoinWords(_)
JoinWords(words) ==
    IF words = <<>> THEN ""
    ELSE IF Len(words) = 1 THEN words[1].word
    ELSE words[1].word \o " " \o JoinWords(Tail(words))

\* The caller says one word for each scan that is to match. A text with
\* no such word is a name.
ClassUtterance(kw, garage, explicit, svc) ==
    LET words == ClassWords(kw, garage, explicit, svc)
    IN IF words = <<>> THEN U_jane
       ELSE [U0 EXCEPT !.text = JoinWords(words), !.kw = kw,
                       !.garage = garage, !.explicit = explicit,
                       !.svc = svc,
                       !.apptkw = IF svc = None THEN None ELSE "Hygiene",
                       !.pos = (JoinWords(words) = "yes"),
                       !.name = words[1].cap]

\* What a caller of the call engine may say on a turn.
Vocabulary ==
    {U_bye, U_no, U_yes, U_book, U_bookhyg, U_hours, U_howmuch, U_whiten,
     U_tomorrow, U_wed, U_9, U_jane}

\* nlp.infer_service(text): the canonical service of the first synonym found.
InferService(u) == u.svc

\* nlp.detect_service(text): the service key of the treatment the text
\* names, found through the same synonym table.
DetectService(u) ==
    CASE InferService(u) = "checkup" -> "check-up"
      [] InferService(u) = None      -> None
      [] OTHER                       -> InferService(u)

(***************************************************************************)
(* app/intent.py                                                           *)
(***************************************************************************)
\* classify with the hours scan consulted before the availability scan.
Classify_HoursBeforeAvailability(u) ==
    LET price_intent        == "price" \in u.kw
        quote_intent        == "quote" \in u.kw
        booking_intent      == "booking" \in u.kw
        availability_intent == "availability" \in u.kw
        address_intent      == "address" \in u.kw
        hours_intent        == "hours" \in u.kw
        affirm_intent       == "affirm" \in u.kw
        service             == InferService(u)
        garage_hint         == u.garage # None
    IN IF u.text = "" THEN None
       ELSE IF "goodbye" \in u.kw THEN "goodbye"
       ELSE IF quote_intent /\ ~booking_intent
            THEN (IF ~garage_hint THEN "prices" ELSE "quote")
       ELSE IF price_intent /\ ~booking_intent THEN "prices"
       ELSE IF booking_intent /\ ~availability_intent THEN "booking"
       ELSE IF booking_intent /\ availability_intent
               /\ (u.explicit \/ service # None) THEN "booking"
       ELSE IF address_intent THEN "address"
       ELSE IF hours_intent THEN "hours"
       ELSE IF availability_intent THEN "availability"
       ELSE IF garage_hint THEN u.garage
       ELSE IF price_intent THEN "prices"
       ELSE IF affirm_intent THEN "affirm"
       ELSE IF service # None THEN "booking"
       ELSE None

\* classify(speech)
Classify(u) ==
    LET price_intent        == "price" \in u.kw
        quote_intent        == "quote" \in u.kw
        booking_intent      == "booking" \in u.kw
        availability_intent == "availability" \in u.kw
        address_intent      == "address" \in u.kw
        hours_intent        == "hours" \in u.kw
        affirm_intent       == "affirm" \in u.kw
        service             == InferService(u)
        garage_hint         == u.garage # None
    IN IF u.text = "" THEN None
       ELSE IF "goodbye" \in u.kw THEN "goodbye"
       ELSE IF quote_intent /\ ~booking_intent
            THEN (IF ~garage_hint THEN "prices" ELSE "quote")
       ELSE IF price_intent /\ ~booking_intent THEN "prices"
       ELSE IF booking_intent /\ ~availability_intent THEN "booking"
       ELSE IF booking_intent /\ availability_intent
               /\ (u.explicit \/ service # None) THEN "booking"
       ELSE IF address_intent THEN "address"
       ELSE IF availability_intent THEN "availability"
       ELSE IF hours_intent THEN "hours"
       ELSE IF garage_hint THEN u.garage
       ELSE IF price_intent THEN "prices"
       ELSE IF affirm_intent THEN "affirm"
       ELSE IF service # None THEN "booking"
       ELSE None

\* The mapping of extract_appt_type from an inferred service to a type.
ServiceToAppt(service) ==
    CASE service = "checkup"    -> "Check-up"
      [] service = "hygiene"    -> "Hygiene"
      [] service = "whitening"  -> "Whitening"
      [] service = "extraction" -> "Extraction"
      [] OTHER                  -> None

\* extract_appt_type(text)
ExtractApptType(u) ==
    IF u.text = "" THEN None
    ELSE IF InferService(u) # None /\ ServiceToAppt(InferService(u)) # None
         THEN ServiceToAppt(InferService(u))
         ELSE u.apptkw

(***************************************************************************)
(* app/nlp.py                                                              *)
(***************************************************************************)
\* today_date().weekday(): Monday is 0.
TodayWeekday == 0

\* parse_date_phrase without the step that turns a delta of 0 into 7.
ParseDatePhrase_SameDayIsToday(u, base_weekday) ==
    CASE u.day = "today"    -> 0
      [] u.day = "tomorrow" -> 1
      [] u.day = "weekday"  -> (u.wd - base_weekday) % 7
      [] OTHER              -> NoDate

\* parse_date_phrase(text), the date as days from today.
ParseDatePhrase(u, base_weekday) ==
    CASE u.day = "today"    -> 0
      [] u.day = "tomorrow" -> 1
      [] u.day = "weekday"  ->
            LET delta == (u.wd - base_weekday) % 7
            IN IF delta = 0 THEN 7 ELSE delta
      [] OTHER              -> NoDate

\* The hour of a 12-hour expression on the 24-hour clock.
Hour24(h, ampm) ==
    IF ampm = "pm" /\ h < 12 THEN h + 12
    ELSE IF ampm = "am" /\ h = 12 THEN 0
    ELSE h

\* normalize_time(text)
NormalizeTime(u) ==
    CASE u.tkind = "half" ->
            IF u.th < 24 THEN u.th * 100 + 30 ELSE NoTime
      [] u.tkind \in {"hour", "colon", "space"} ->
            LET ampm   == IF u.tkind = "space" THEN None ELSE u.ampm
                hour   == Hour24(u.th, ampm)
                minute == IF u.tkind = "colon" THEN u.tm ELSE 0
            IN IF hour < 24 /\ minute < 60 THEN hour * 100 + minute
               ELSE NoTime
      [] OTHER -> NoTime

\* The spoken 12-hour form: minute is NoTime when the form has no minutes.
\* NoSpoken stands for an input handed back because it is not HH:MM.
NoSpoken == [hour |-> NoTime, minute |-> NoTime, suffix |-> None]

\* hhmm_to_12h with noon counted as a morning hour.
HhmmTo12h_NoonIsAm(hhmm) ==
    IF hhmm = NoTime THEN NoSpoken
    ELSE LET hour   == hhmm \div 100
             minute == hhmm % 100
         IN [hour   |-> IF hour % 12 = 0 THEN 12 ELSE hour % 12,
             minute |-> IF minute = 0 THEN NoTime ELSE minute,
             suffix |-> IF hour <= 12 THEN "am" ELSE "pm"]

\* hhmm_to_12h(hhmm)
HhmmTo12h(hhmm) ==
    IF hhmm = NoTime THEN NoSpoken
    ELSE LET hour         == hhmm \div 100
             minute       == hhmm % 100
             suffix       == IF hour < 12 THEN "am" ELSE "pm"
             display_hour == IF hour % 12 = 0 THEN 12 ELSE hour % 12
         IN [hour   |-> display_hour,
             minute |-> IF minute = 0 THEN NoTime ELSE minute,
             suffix |-> suffix]

\* parse_time_like(text)
ParseTimeLike(u) ==
    CASE u.tkind = "half" -> ((u.th % 12) + 12) * 100 + 30
      [] u.tkind \in {"hour", "colon", "space"} ->
            LET ampm   == IF u.tkind = "space" THEN None ELSE u.ampm
                hour   == Hour24(u.th, ampm) % 24
                minute == IF u.tkind = "colon" THEN u.tm ELSE 0
            IN hour * 100 + minute
      [] OTHER -> NoTime

\* The first element of a sequence of times that is in a set, or no time.
FirstIn(seq, S) ==
    LET hits == {i \in DOMAIN seq : seq[i] \in S}
    IN IF hits = {} THEN NoTime
       ELSE seq[CHOOSE i \in hits : \A j \in hits : i <= j]

\* try_candidates(raw_hour, minute, allow_half_hour) of fuzzy_pick_time;
\* minute is NoTime where the code passes None.
TryCandidates(raw_hour, minute, allow_half_hour, avail_set) ==
    LET base_minutes == IF minute = NoTime THEN 0 ELSE minute
        c1 == raw_hour % 24
        c2 == (raw_hour % 12) + 12
        candidates == IF c1 = c2 THEN <<c1>> ELSE <<c1, c2>>
        onBase == FirstIn([i \in DOMAIN candidates |->
                              candidates[i] * 100 + base_minutes], avail_set)
        onHalf == FirstIn([i \in DOMAIN candidates |->
                              candidates[i] * 100 + 30], avail_set)
    IN IF onBase # NoTime THEN onBase
       ELSE IF minute = NoTime /\ allow_half_hour THEN onHalf
       ELSE NoTime

\* The standalone one- or two-digit numbers of the sanitized text, last first.
BareHours(u) ==
    CASE u.tkind \in {"hour", "half"}   -> <<u.th>>
      [] u.tkind \in {"colon", "space"} -> <<u.tm, u.th>>
      [] OTHER                          -> <<>>

\* The loop over the standalone hours, from the one at position i on.
RECURSIVE TryBareHours(_, _, _, _)
TryBareHours(hours, i, allow_half_hour, avail_set) ==
    IF i > Len(hours) THEN NoTime
    ELSE LET picked == TryCandidates(hours[i], NoTime, allow_half_hour,
                                     avail_set)
         IN IF picked # NoTime THEN picked
            ELSE TryBareHours(hours, i + 1, allow_half_hour, avail_set)

\* fuzzy_pick_time(user_text, available_hhmm)
FuzzyPickTime(u, available_hhmm) ==
    LET avail_set == {available_hhmm[i] : i \in DOMAIN available_hhmm}
        has_ampm  == u.ampm # None
        norm      == NormalizeTime(u)
        paired    == IF u.tkind \in {"colon", "space", "run"}
                     THEN TryCandidates(u.th, u.tm, FALSE, avail_set)
                     ELSE NoTime
    IN IF u.text = "" \/ available_hhmm = <<>> THEN NoTime
       ELSE IF norm # NoTime /\ norm \in avail_set THEN norm
       ELSE IF paired # NoTime THEN paired
       ELSE TryBareHours(BareHours(u), 1, ~has_ampm, avail_set)

(***************************************************************************)
(* main.py: the per-call state and the response directives.                *)
(***************************************************************************)
\* No requested time: the None of state["requested_time"].
NoReq == <<NoDate, NoTime>>
\* No Confidence field on the request.
NoConf == 0 - 1

\* settings.practice.max_silence_reprompts
MAX_SILENCE_REPROMPTS == 2
\* The threshold of _clarifier_prompt (confidence < 0.6), in hundredths.
LowConfidence == 60

\* _initial_state(call_sid, form_data); a key the code leaves out of the
\* dict and reads with .get() holds the default that .get() returns.
InitialState ==
    [stage |-> "intent", intent |-> None, caller_name |-> None,
     requested_time |-> NoReq, retries |-> 0, silence_count |-> 0,
     greeted |-> FALSE, booking_logged |-> FALSE, ending |-> FALSE,
     consent_said |-> FALSE,
     booking_appt_type |-> None, booking_date |-> NoDate,
     booking_time |-> NoTime, booking_available_times |-> <<>>,
     booking_suggested_slot |-> NoRow,
     last_service |-> None, awaiting_price_service |-> FALSE,
     name_attempts |-> 0]

INFO_LINES == {"hours", "address", "prices"}

\* SERVICE_KEY_TO_APPT.get(service_key)
ServiceKeyToAppt(service_key) ==
    CASE service_key = "check-up"   -> "Check-up"
      [] service_key = "hygiene"    -> "Hygiene"
      [] service_key = "whitening"  -> "Whitening"
      [] service_key = "extraction" -> "Extraction"
      [] OTHER                      -> None

\* APPT_TO_SERVICE_KEY.get(appt_type)
ApptToServiceKey(appt_type) ==
    CASE appt_type = "Check-up"   -> "check-up"
      [] appt_type = "Hygiene"    -> "hygiene"
      [] appt_type = "Whitening"  -> "whitening"
      [] appt_type = "Extraction" -> "extraction"
      [] OTHER                    -> None

\* What a handler leaves behind: the call state, the directive returned
\* (kind, the action of a Gather, the prompt spoken) and the slot table and
\* bookings log as the handler left them.
Directive(st, kind, action, prompt) ==
    [st |-> st, kind |-> kind, action |-> action, prompt |-> prompt,
     tbl |-> table, log |-> bookings]

\* _respond_with_gather(state, prompt, action=action)
RespondWithGather(st, prompt, action) ==
    Directive(st, "gather", action, prompt)

\* _respond_with_goodbye that marks the call with a stage of its own.
RespondWithGoodbye_StageEnded(st) ==
    Directive([st EXCEPT !.stage = "ended", !.ending = TRUE],
              "goodbye", None, "goodbye")

\* _respond_with_goodbye(state)
RespondWithGoodbye(st) ==
    Directive([st EXCEPT !.stage = "completed", !.ending = TRUE],
              "goodbye", None, "goodbye")

\* _hangup_only_response()
HangupOnlyResponse(st) == Directive(st, "hangup", None, None)

\* An exception leaves the handler: the request is answered with a server
\* error and the state keeps what was assigned before the raise.
Raised(st) == Directive(st, "fault", None, None)

\* _respond_with_price_details(state, service_key)
RespondWithPriceDetails(st, service_key) ==
    RespondWithGather(
        [st EXCEPT !.intent = "prices", !.stage = "follow_up",
                   !.retries = 0, !.last_service = service_key,
                   !.awaiting_price_service = FALSE],
        "price_details", "/gather-intent")

\* _prompt_for_service_choice(state)
PromptForServiceChoice(st) ==
    RespondWithGather(
        [st EXCEPT !.awaiting_price_service = TRUE, !.intent = "prices",
                   !.stage = "follow_up"],
        "service_choice", "/gather-intent")

\* _handle_price_service_follow_up(state, user_input)
HandlePriceServiceFollowUp(st, u) ==
    LET service_key == DetectService(u)
    IN IF service_key # None THEN RespondWithPriceDetails(st, service_key)
       ELSE RespondWithGather(
                [st EXCEPT !.awaiting_price_service = TRUE,
                           !.stage = "follow_up"],
                "service_choice_apology", "/gather-intent")

\* _clarifier_prompt(confidence)
ClarifierPrompt(confidence) ==
    IF confidence # NoConf /\ confidence < LowConfidence
    THEN "clarifier" ELSE "soft_reprompt"

\* _reset_booking_context that also forgets the consent notice was spoken.
ResetBookingContext_ForgetsConsent(st) ==
    [st EXCEPT !.intent = "booking", !.booking_appt_type = None,
               !.booking_date = NoDate, !.booking_time = NoTime,
               !.booking_available_times = <<>>, !.requested_time = NoReq,
               !.caller_name = None, !.booking_logged = FALSE,
               !.booking_suggested_slot = NoRow, !.consent_said = FALSE]

\* _reset_booking_context(state)
ResetBookingContext(st) ==
    [st EXCEPT !.intent = "booking", !.booking_appt_type = None,
               !.booking_date = NoDate, !.booking_time = NoTime,
               !.booking_available_times = <<>>, !.requested_time = NoReq,
               !.caller_name = None, !.booking_logged = FALSE,
               !.booking_suggested_slot = NoRow]

\* _available_slots_for_date(date)
AvailableSlotsForDate(date) ==
    LET slots == ListAvailable(table, date, 6)
    IN [i \in DOMAIN slots |-> slots[i].start_time]

\* _next_available_slot(): schedule.find_next_available() is called without
\* its required argument after_date, which raises TypeError before the
\* function body runs.
NextAvailableSlot == [raised |-> TRUE, row |-> NoRow]

\* _match_appointment_type(text)
MatchAppointmentType(u) ==
    IF ExtractApptType(u) # None THEN ExtractApptType(u)
    ELSE IF u.text = "" THEN None
    ELSE u.typeword

\* _handle_availability_request that asks for a time on every date, free
\* times or not.
HandleAvailabilityRequest_AnyDateHasTimes(st, u) ==
    LET date  == ParseDatePhrase(u, TodayWeekday)
        slots == AvailableSlotsForDate(date)
    IN IF date = NoDate
       THEN RespondWithGather(
                [st EXCEPT !.stage = "booking_date", !.silence_count = 0,
                           !.retries = 0, !.booking_date = NoDate,
                           !.booking_available_times = <<>>],
                "which_day", "/gather-booking")
       ELSE RespondWithGather(
                [st EXCEPT !.booking_date = date,
                           !.booking_available_times = slots,
                           !.stage = "booking_time",
                           !.silence_count = 0, !.retries = 0],
                "booking_time_prompt", "/gather-booking")

\* _handle_availability_request(state, user_input)
HandleAvailabilityRequest(st, u) ==
    LET date  == ParseDatePhrase(u, TodayWeekday)
        slots == AvailableSlotsForDate(date)
        nxt   == NextAvailableSlot
    IN IF date = NoDate
       THEN RespondWithGather(
                [st EXCEPT !.stage = "booking_date", !.silence_count = 0,
                           !.retries = 0, !.booking_date = NoDate,
                           !.booking_available_times = <<>>],
                "which_day", "/gather-booking")
       ELSE IF slots = <<>>
       THEN IF nxt.raised THEN Raised(st)
            ELSE RespondWithGather(
                     [st EXCEPT !.booking_date = date,
                                !.booking_available_times = <<>>,
                                !.stage = "booking_date",
                                !.silence_count = 0, !.retries = 0],
                     IF nxt.row # NoRow THEN "next_available_offer"
                     ELSE "no_free_times",
                     "/gather-booking")
       ELSE RespondWithGather(
                [st EXCEPT !.booking_date = date,
                           !.booking_available_times = slots,
                           !.stage = "booking_time",
                           !.silence_count = 0, !.retries = 0],
                "booking_time_prompt", "/gather-booking")

\* _extract_first_name(text)
ExtractFirstName(u) == u.name

MaxInt(a, b) == IF a >= b THEN a ELSE b

\* _handle_silence(state, reprompt=reprompt, action=action)
HandleSilence(st, reprompt, action) ==
    LET st1 == [st EXCEPT !.silence_count = @ + 1, !.retries = @ + 1]
        max_reprompts ==
            MaxInt(IF MAX_SILENCE_REPROMPTS # 0 THEN MAX_SILENCE_REPROMPTS
                   ELSE 1, 1)
    IN IF st1.silence_count <= max_reprompts
       THEN RespondWithGather(st1, reprompt, action)
       ELSE RespondWithGoodbye(st1)

\* _start_booking that takes the service from the utterance alone.
StartBooking_UtteranceOnly(st, u) ==
    LET st1 == [ResetBookingContext(st) EXCEPT !.silence_count = 0,
                                               !.retries = 0]
        detected_service == DetectService(u)
        extracted   == ExtractApptType(u)
        inline_type == IF extracted = None /\ detected_service # None
                       THEN ServiceKeyToAppt(detected_service)
                       ELSE extracted
        mapped_service == ApptToServiceKey(inline_type)
    IN IF inline_type # None
       THEN RespondWithGather(
                [st1 EXCEPT !.booking_appt_type = inline_type,
                            !.last_service =
                                IF mapped_service # None THEN mapped_service
                                ELSE IF detected_service # None
                                     THEN detected_service ELSE @,
                            !.stage = "booking_date"],
                "booking_date_prompt", "/gather-booking")
       ELSE RespondWithGather([st1 EXCEPT !.stage = "booking_type"],
                              "booking_type_prompt", "/gather-booking")

\* _start_booking(state, initial_text)
StartBooking(st, u) ==
    LET st1 == [ResetBookingContext(st) EXCEPT !.silence_count = 0,
                                               !.retries = 0]
        detected_service == IF DetectService(u) # None THEN DetectService(u)
                            ELSE st1.last_service
        extracted   == ExtractApptType(u)
        inline_type == IF extracted = None /\ detected_service # None
                       THEN ServiceKeyToAppt(detected_service)
                       ELSE extracted
        mapped_service == ApptToServiceKey(inline_type)
    IN IF inline_type # None
       THEN RespondWithGather(
                [st1 EXCEPT !.booking_appt_type = inline_type,
                            !.last_service =
                                IF mapped_service # None THEN mapped_service
                                ELSE IF detected_service # None
                                     THEN detected_service ELSE @,
                            !.stage = "booking_date"],
                "booking_date_prompt", "/gather-booking")
       ELSE RespondWithGather([st1 EXCEPT !.stage = "booking_type"],
                              "booking_type_prompt", "/gather-booking")

\* The prices branch shared by _handle_primary_intent and _handle_follow_up.
RespondToPrices(st, u) ==
    LET service_key == IF DetectService(u) # None THEN DetectService(u)
                       ELSE st.last_service
    IN IF service_key # None THEN RespondWithPriceDetails(st, service_key)
       ELSE PromptForServiceChoice(st)

\* The availability branch shared by the two top-level handlers.
RespondToAvailability(st, u) ==
    HandleAvailabilityRequest(
        IF st.intent # "booking" THEN ResetBookingContext(st) ELSE st, u)

\* _handle_primary_intent(state, intent, user_input, confidence)
HandlePrimaryIntent(st, intent, u, confidence) ==
    IF st.awaiting_price_service THEN HandlePriceServiceFollowUp(st, u)
    ELSE IF intent = "goodbye" \/ u.neg THEN RespondWithGoodbye(st)
    ELSE IF intent = "prices" THEN RespondToPrices(st, u)
    ELSE IF intent \in INFO_LINES
         THEN RespondWithGather(
                  [st EXCEPT !.intent = intent, !.stage = "follow_up",
                             !.retries = 0],
                  "info_anything_else", "/gather-intent")
    ELSE IF intent = "availability" THEN RespondToAvailability(st, u)
    ELSE IF intent = "booking" THEN StartBooking(st, u)
    ELSE IF intent = "affirm" \/ u.pos
         THEN RespondWithGather([st EXCEPT !.stage = "intent"],
                                "clarify", "/gather-intent")
    ELSE RespondWithGather(
             [st EXCEPT !.intent = IF @ # None THEN @ ELSE "other"],
             ClarifierPrompt(confidence), "/gather-intent")

\* _handle_follow_up(state, intent, user_input, confidence)
HandleFollowUp(st, intent, u, confidence) ==
    IF st.awaiting_price_service THEN HandlePriceServiceFollowUp(st, u)
    ELSE IF intent = "goodbye" \/ u.neg THEN RespondWithGoodbye(st)
    ELSE IF intent = "availability" THEN RespondToAvailability(st, u)
    ELSE IF intent = "prices" THEN RespondToPrices(st, u)
    ELSE IF intent \in INFO_LINES \/ intent = "booking"
         THEN HandlePrimaryIntent([st EXCEPT !.stage = "intent"], intent, u,
                                  confidence)
    ELSE IF intent = "affirm" \/ u.pos
         THEN RespondWithGather([st EXCEPT !.stage = "intent"],
                                "clarify", "/gather-intent")
    ELSE RespondWithGather([st EXCEPT !.stage = "intent"],
                           ClarifierPrompt(confidence), "/gather-intent")

\* _handle_booking_type(state, user_input, intent, confidence)
HandleBookingType(st, u, intent, confidence) ==
    LET match == MatchAppointmentType(u)
        st1   == [st EXCEPT !.booking_appt_type = match,
                            !.silence_count = 0, !.retries = 0]
    IN IF intent = "goodbye" THEN RespondWithGoodbye(st)
       ELSE IF intent \in INFO_LINES
            THEN HandlePrimaryIntent([st EXCEPT !.stage = "intent"], intent,
                                     u, confidence)
       ELSE IF intent = "availability" THEN HandleAvailabilityRequest(st, u)
       ELSE IF match = None
            THEN RespondWithGather([st EXCEPT !.retries = @ + 1],
                                   "booking_type_reprompt", "/gather-booking")
       ELSE IF st1.booking_date # NoDate /\ st1.booking_time # NoTime
            THEN RespondWithGather([st1 EXCEPT !.stage = "booking_name"],
                                   "booking_name_prompt", "/gather-booking")
       ELSE RespondWithGather([st1 EXCEPT !.stage = "booking_date"],
                              "booking_date_prompt", "/gather-booking")

\* _handle_booking_date(state, user_input, intent, confidence)
HandleBookingDate(st, u, intent, confidence) ==
    LET suggested == st.booking_suggested_slot
        parsed    == ParseDatePhrase(u, TodayWeekday)
        slots     == AvailableSlotsForDate(parsed)
        st1       == [st EXCEPT !.booking_date = parsed,
                                !.booking_available_times = slots,
                                !.booking_suggested_slot = NoRow,
                                !.silence_count = 0, !.retries = 0]
        nxt       == NextAvailableSlot
    IN IF intent = "goodbye" \/ u.neg THEN RespondWithGoodbye(st)
       ELSE IF intent \in INFO_LINES
            THEN HandlePrimaryIntent([st EXCEPT !.stage = "intent"], intent,
                                     u, confidence)
       ELSE IF intent = "availability" THEN HandleAvailabilityRequest(st, u)
       ELSE IF suggested # NoRow /\ (intent = "affirm" \/ u.pos)
            THEN RespondWithGather(
                     [st EXCEPT
                         !.booking_date = suggested.date,
                         !.booking_time = suggested.start_time,
                         !.booking_available_times = <<suggested.start_time>>,
                         !.requested_time =
                             <<suggested.date, suggested.start_time>>,
                         !.booking_suggested_slot = NoRow,
                         !.stage = "booking_name", !.silence_count = 0],
                     "booking_name_prompt", "/gather-booking")
       ELSE IF parsed = NoDate
            THEN RespondWithGather([st EXCEPT !.retries = @ + 1],
                                   "booking_date_reprompt", "/gather-booking")
       ELSE IF slots = <<>>
            THEN IF nxt.raised THEN Raised(st1)
                 ELSE RespondWithGather(
                          [st1 EXCEPT !.booking_suggested_slot = nxt.row],
                          IF nxt.row # NoRow THEN "next_available_offer"
                          ELSE "no_available_times",
                          "/gather-booking")
       ELSE RespondWithGather([st1 EXCEPT !.stage = "booking_time"],
                              "booking_time_prompt", "/gather-booking")

\* _handle_booking_time taking the time the caller names whether or not it
\* is among the available times.
HandleBookingTime_TakesAnyTime(st, u, intent, confidence) ==
    LET stored == st.booking_available_times
        requery == st.booking_date # NoDate /\ stored = <<>>
        available_list == IF requery
                          THEN AvailableSlotsForDate(st.booking_date)
                          ELSE stored
        st1 == [st EXCEPT !.booking_available_times = available_list]
        avail_set == {available_list[i] : i \in DOMAIN available_list}
        direct_pick == ParseTimeLike(u)
        hhmm == IF u.anytime THEN available_list[1]
                ELSE IF direct_pick # NoTime
                     THEN direct_pick
                     ELSE FuzzyPickTime(u, available_list)
        st2 == [st1 EXCEPT !.booking_time = hhmm,
                           !.requested_time = <<st1.booking_date, hhmm>>,
                           !.silence_count = 0, !.retries = 0]
    IN IF intent = "goodbye" THEN RespondWithGoodbye(st)
       ELSE IF intent \in INFO_LINES
            THEN HandlePrimaryIntent([st EXCEPT !.stage = "intent"], intent,
                                     u, confidence)
       ELSE IF intent = "availability" THEN HandleAvailabilityRequest(st, u)
       ELSE IF available_list = <<>>
            THEN RespondWithGather([st1 EXCEPT !.retries = @ + 1],
                                   "no_free_times_that_day", "/gather-booking")
       ELSE IF hhmm = NoTime
            THEN RespondWithGather([st1 EXCEPT !.retries = @ + 1],
                                   "booking_time_reprompt", "/gather-booking")
       ELSE IF st2.booking_appt_type # None
            THEN RespondWithGather([st2 EXCEPT !.stage = "booking_name"],
                                   "booking_name_prompt", "/gather-booking")
       ELSE RespondWithGather([st2 EXCEPT !.stage = "booking_type"],
                              "booking_type_prompt", "/gather-booking")

\* _handle_booking_time that asks for the name whether or not an
\* appointment type is held.
HandleBookingTime_NeverAsksType(st, u, intent, confidence) ==
    LET stored == st.booking_available_times
        requery == st.booking_date # NoDate /\ stored = <<>>
        available_list == IF requery
                          THEN AvailableSlotsForDate(st.booking_date)
                          ELSE stored
        st1 == [st EXCEPT !.booking_available_times = available_list]
        avail_set == {available_list[i] : i \in DOMAIN available_list}
        direct_pick == ParseTimeLike(u)
        hhmm == IF u.anytime THEN available_list[1]
                ELSE IF direct_pick # NoTime
                        /\ (avail_set = {} \/ direct_pick \in avail_set)
                     THEN direct_pick
                     ELSE FuzzyPickTime(u, available_list)
        st2 == [st1 EXCEPT !.booking_time = hhmm,
                           !.requested_time = <<st1.booking_date, hhmm>>,
                           !.silence_count = 0, !.retries = 0]
    IN IF intent = "goodbye" THEN RespondWithGoodbye(st)
       ELSE IF intent \in INFO_LINES
            THEN HandlePrimaryIntent([st EXCEPT !.stage = "intent"], intent,
                                     u, confidence)
       ELSE IF intent = "availability" THEN HandleAvailabilityRequest(st, u)
       ELSE IF available_list = <<>>
            THEN RespondWithGather([st1 EXCEPT !.retries = @ + 1],
                                   "no_free_times_that_day", "/gather-booking")
       ELSE IF hhmm = NoTime \/ (avail_set # {} /\ hhmm \notin avail_set)
            THEN RespondWithGather([st1 EXCEPT !.retries = @ + 1],
                                   "booking_time_reprompt", "/gather-booking")
       ELSE RespondWithGather([st2 EXCEPT !.stage = "booking_name"],
                              "booking_name_prompt", "/gather-booking")

\* _handle_booking_time(state, user_input, intent, confidence)
HandleBookingTime(st, u, intent, confidence) ==
    LET stored == st.booking_available_times
        requery == st.booking_date # NoDate /\ stored = <<>>
        available_list == IF requery
                          THEN AvailableSlotsForDate(st.booking_date)
                          ELSE stored
        st1 == [st EXCEPT !.booking_available_times = available_list]
        avail_set == {available_list[i] : i \in DOMAIN available_list}
        direct_pick == ParseTimeLike(u)
        hhmm == IF u.anytime THEN available_list[1]
                ELSE IF direct_pick # NoTime
                        /\ (avail_set = {} \/ direct_pick \in avail_set)
                     THEN direct_pick
                     ELSE FuzzyPickTime(u, available_list)
        st2 == [st1 EXCEPT !.booking_time = hhmm,
                           !.requested_time = <<st1.booking_date, hhmm>>,
                           !.silence_count = 0, !.retries = 0]
    IN IF intent = "goodbye" THEN RespondWithGoodbye(st)
       ELSE IF intent \in INFO_LINES
            THEN HandlePrimaryIntent([st EXCEPT !.stage = "intent"], intent,
                                     u, confidence)
       ELSE IF intent = "availability" THEN HandleAvailabilityRequest(st, u)
       ELSE IF available_list = <<>>
            THEN RespondWithGather([st1 EXCEPT !.retries = @ + 1],
                                   "no_free_times_that_day", "/gather-booking")
       ELSE IF hhmm = NoTime \/ (avail_set # {} /\ hhmm \notin avail_set)
            THEN RespondWithGather([st1 EXCEPT !.retries = @ + 1],
                                   "booking_time_reprompt", "/gather-booking")
       ELSE IF st2.booking_appt_type # None
            THEN RespondWithGather([st2 EXCEPT !.stage = "booking_name"],
                                   "booking_name_prompt", "/gather-booking")
       ELSE RespondWithGather([st2 EXCEPT !.stage = "booking_type"],
                              "booking_type_prompt", "/gather-booking")

\* _handle_booking_name without the limit on failed attempts.
HandleBookingName_NeverGivesUp(st, u, intent, confidence) ==
    LET name     == ExtractFirstName(u)
        attempts == st.name_attempts + 1
        max_attempts ==
            MaxInt(IF MAX_SILENCE_REPROMPTS # 0 THEN MAX_SILENCE_REPROMPTS
                   ELSE 2, 2)
    IN IF intent = "goodbye" THEN RespondWithGoodbye(st)
       ELSE IF intent \in INFO_LINES
            THEN HandlePrimaryIntent([st EXCEPT !.stage = "intent"], intent,
                                     u, confidence)
       ELSE IF intent = "availability" THEN HandleAvailabilityRequest(st, u)
       ELSE IF name = None
            THEN IF FALSE
                 THEN RespondWithGoodbye(
                          [st EXCEPT !.retries = @ + 1, !.name_attempts = 0])
                 ELSE RespondWithGather(
                          [st EXCEPT !.retries = @ + 1,
                                     !.name_attempts = attempts],
                          "booking_name_reprompt", "/gather-booking")
       ELSE RespondWithGather(
                [st EXCEPT !.caller_name = name, !.stage = "booking_confirm",
                           !.silence_count = 0, !.retries = 0,
                           !.name_attempts = 0],
                "booking_confirm_prompt", "/gather-booking")

\* _handle_booking_name(state, user_input, intent, confidence)
HandleBookingName(st, u, intent, confidence) ==
    LET name     == ExtractFirstName(u)
        attempts == st.name_attempts + 1
        max_attempts ==
            MaxInt(IF MAX_SILENCE_REPROMPTS # 0 THEN MAX_SILENCE_REPROMPTS
                   ELSE 2, 2)
    IN IF intent = "goodbye" THEN RespondWithGoodbye(st)
       ELSE IF intent \in INFO_LINES
            THEN HandlePrimaryIntent([st EXCEPT !.stage = "intent"], intent,
                                     u, confidence)
       ELSE IF intent = "availability" THEN HandleAvailabilityRequest(st, u)
       ELSE IF name = None
            THEN IF attempts > max_attempts
                 THEN RespondWithGoodbye(
                          [st EXCEPT !.retries = @ + 1, !.name_attempts = 0])
                 ELSE RespondWithGather(
                          [st EXCEPT !.retries = @ + 1,
                                     !.name_attempts = attempts],
                          "booking_name_reprompt", "/gather-booking")
       ELSE RespondWithGather(
                [st EXCEPT !.caller_name = name, !.stage = "booking_confirm",
                           !.silence_count = 0, !.retries = 0,
                           !.name_attempts = 0],
                "booking_confirm_prompt", "/gather-booking")

\* _handle_booking_confirmation(state, user_input, intent, confidence)
HandleBookingConfirmation(st, u, intent, confidence) ==
    LET date      == st.booking_date
        time      == st.booking_time
        name      == st.caller_name
        appt_type == st.booking_appt_type
        r         == ReserveSlot(table, bookings, date, time, name, appt_type)
        booked    == [st EXCEPT !.requested_time = <<date, time>>,
                                !.booking_logged = TRUE,
                                !.stage = "follow_up", !.intent = "booking",
                                !.consent_said = TRUE]
        taken     == [st EXCEPT
                         !.stage = "booking_date", !.booking_time = NoTime,
                         !.booking_available_times =
                             AvailableSlotsForDate(date)]
    IN IF intent = "goodbye" \/ u.neg
       THEN RespondWithGather([st EXCEPT !.stage = "follow_up"],
                              "booking_declined", "/gather-intent")
       ELSE IF intent \in INFO_LINES
            THEN HandlePrimaryIntent([st EXCEPT !.stage = "intent"], intent,
                                     u, confidence)
       ELSE IF intent = "availability" THEN HandleAvailabilityRequest(st, u)
       ELSE IF intent = "affirm" \/ u.pos
            THEN IF date = NoDate \/ time = NoTime \/ name = None
                    \/ appt_type = None
                 THEN RespondWithGather([st EXCEPT !.stage = "booking_type"],
                                        "booking_type_prompt",
                                        "/gather-booking")
                 ELSE IF r.ok
                 THEN [st |-> booked, kind |-> "gather",
                       action |-> "/gather-intent",
                       prompt |-> IF st.consent_said THEN "booking_confirmed"
                                  ELSE "booking_confirmed_consent",
                       tbl |-> r.table, log |-> r.bookings]
                 ELSE RespondWithGather(taken, "slot_taken",
                                        "/gather-booking")
       ELSE RespondWithGather([st EXCEPT !.retries = @ + 1],
                              "booking_confirm_prompt", "/gather-booking")

\* The body of gather_intent_route once the state is fetched.
GatherIntentTurn(st, u, confidence) ==
    LET service_slot == DetectService(u)
        st1 == [st EXCEPT !.silence_count = 0,
                          !.last_service = IF service_slot # None
                                           THEN service_slot ELSE @]
        intent == Classify(u)
    IN IF st.ending \/ st.stage = "completed" THEN HangupOnlyResponse(st)
       ELSE IF u = Silence
            THEN HandleSilence(st,
                               IF st.stage = "intent" THEN "clarify"
                               ELSE "anything_else",
                               "/gather-intent")
       ELSE IF st1.stage = "follow_up"
            THEN HandleFollowUp(st1, intent, u, confidence)
       ELSE HandlePrimaryIntent([st1 EXCEPT !.stage = "intent"], intent, u,
                                confidence)

\* The reprompt and the action gather_booking_route passes to _handle_silence.
BookingSilence(st) ==
    CASE st.stage = "booking_type" ->
            HandleSilence(st, "booking_type_reprompt", "/gather-booking")
      [] st.stage = "booking_date" ->
            HandleSilence(st, "booking_date_reprompt", "/gather-booking")
      [] st.stage = "booking_name" ->
            HandleSilence(st, "booking_name_reprompt", "/gather-booking")
      [] st.stage = "booking_time" ->
            HandleSilence(st, "booking_time_reprompt", "/gather-booking")
      [] st.stage = "booking_confirm" ->
            HandleSilence(st, "booking_confirm_reprompt", "/gather-booking")
      [] OTHER -> HandleSilence(st, "clarify", "/gather-intent")

\* The body of gather_booking_route once the state is fetched.
GatherBookingTurn(st, u, confidence) ==
    LET service_slot == DetectService(u)
        st1 == [st EXCEPT !.silence_count = 0,
                          !.last_service = IF service_slot # None
                                           THEN service_slot ELSE @]
        intent == Classify(u)
        stage  == st.stage
    IN IF st.ending \/ st.stage = "completed" THEN HangupOnlyResponse(st)
       ELSE IF u = Silence THEN BookingSilence(st)
       ELSE CASE stage = "booking_type" ->
                    HandleBookingType(st1, u, intent, confidence)
              [] stage = "booking_date" ->
                    HandleBookingDate(st1, u, intent, confidence)
              [] stage = "booking_time" ->
                    HandleBookingTime(st1, u, intent, confidence)
              [] stage = "booking_name" ->
                    HandleBookingName(st1, u, intent, confidence)
              [] stage = "booking_confirm" ->
                    HandleBookingConfirmation(st1, u, intent, confidence)
              [] OTHER ->
                    HandlePrimaryIntent(st1, intent, u, confidence)

\* The body of voice_webhook once the state is fetched.
VoiceTurn(st) ==
    IF st.ending \/ st.stage = "completed" THEN HangupOnlyResponse(st)
    ELSE IF ~st.greeted
         THEN RespondWithGather(
                  [st EXCEPT !.greeted = TRUE, !.stage = "intent",
                             !.silence_count = 0, !.retries = 0],
                  "opening", "/gather-intent")
    ELSE RespondWithGather(st, "clarify", "/gather-intent")

(***************************************************************************)
(* Spec: the call engine.  The telephony gateway delivers the events of a  *)
(* call one at a time: /voice at any moment, a gather result to the        *)
(* endpoint the last listen directive named (or, late, after the call was  *)
(* told to hang up), a status callback at any moment.                      *)
(***************************************************************************)
\* Most content retries a call accumulates before the caller makes progress.
MaxRetries == 3
\* Most completed status callbacks delivered.
MaxFiles == 2
\* Most turn events the gateway still delivers for calls it has already
\* reported completed.
MaxLate == 2

CallIds == {"CA1"}
Confidences == {NoConf, 50}
Statuses == {"in-progress", "completed"}

EmptyMap == [c \in {} |-> None]
Put(f, k, v) == [x \in DOMAIN f \cup {k} |-> IF x = k THEN v ELSE f[x]]
Remove(f, k) == [x \in DOMAIN f \ {k} |-> f[x]]

\* Threads operating on the call-state map at once in SpecStore.
NumThreads == 3

\* A thread that has not called into the map, and the map before any call:
\* empty, unlocked, no state object allocated, nothing removed.  A state
\* object is known by its allocation number; 0 stands for None.
IdleThread == [pc |-> "idle", op |-> None, call_sid |-> None, state |-> 0,
               removes |-> 0]
IdleStore ==
    [states |-> EmptyMap, lock |-> 0,
     threads |-> [p \in 1..NumThreads |-> IdleThread],
     allocated |-> 0, removes |-> 0]

NoResp ==
    [call |-> None, route |-> None, kind |-> None, action |-> None,
     prompt |-> None]

\* The table the practice provisioned: two free slots tomorrow, stored out
\* of time order, and nothing on the other days.
InitialTable == <<AvailableRow(1, 1600), AvailableRow(1, 900)>>

\* No call has reached the service yet.
NoCalls ==
    /\ calls = EmptyMap
    /\ transcripts = EmptyMap
    /\ files = <<>>
    /\ callLog = <<>>
    /\ bookingRequests = <<>>
    /\ ended = {}
    /\ resp = NoResp
    /\ gateway = [c \in CallIds |-> "none"]
    /\ late = 0
    /\ store = IdleStore

Init ==
    /\ table = InitialTable
    /\ bookings = <<>>
    /\ out = NoOut
    /\ procs = [p \in 1..NumProcs |-> IdleProc]
    /\ NoCalls

\* _get_state(call_sid, form): the stored state, or a fresh one.
GetState(c) == IF c \in DOMAIN calls THEN calls[c] ELSE InitialState

\* The transcript buffer of the call once _get_state has run: transcript_init
\* empties it when the state is created.
BufferOf(c) ==
    IF c \in DOMAIN calls /\ c \in DOMAIN transcripts THEN transcripts[c]
    ELSE "empty"

\* What a turn leaves behind: the state stored under the call identifier,
\* the transcript buffer after _remember_caller_line and
\* _remember_agent_line, the table and log, and the directive returned.
\* A completed status callback was processed for the call.
Completed(c) == \E i \in DOMAIN files : files[i].call_sid = c

Deliver(c, route, r, spoke) ==
    /\ r.st.retries <= MaxRetries
    /\ Completed(c) => late < MaxLate
    /\ late' = IF Completed(c) THEN late + 1 ELSE late
    /\ calls' = Put(calls, c, r.st)
    /\ transcripts' = Put(transcripts, c,
                          IF spoke \/ r.kind \in {"gather", "goodbye"}
                          THEN "lines" ELSE BufferOf(c))
    /\ table' = r.tbl
    /\ bookings' = r.log
    /\ ended' = IF r.kind = "goodbye" THEN ended \cup {c} ELSE ended
    /\ resp' = [call |-> c, route |-> route, kind |-> r.kind,
                action |-> r.action, prompt |-> r.prompt]
    /\ gateway' = [gateway EXCEPT ![c] = IF r.kind = "gather" THEN r.action
                                         ELSE "ended"]
    /\ UNCHANGED <<files, callLog, bookingRequests, out, procs, store>>

\* POST /voice
Voice(c) ==
    /\ c \in DOMAIN gateway
    /\ Deliver(c, "/voice", VoiceTurn(GetState(c)), FALSE)

\* POST /gather-intent
GatherIntent(c, u, confidence) ==
    /\ gateway[c] \in {"/gather-intent", "ended"}
    /\ Deliver(c, "/gather-intent",
               GatherIntentTurn(GetState(c), u, confidence), u # Silence)

\* POST /gather-booking
GatherBooking(c, u, confidence) ==
    /\ gateway[c] \in {"/gather-booking", "ended"}
    /\ Deliver(c, "/gather-booking",
               GatherBookingTurn(GetState(c), u, confidence), u # Silence)

\* POST /status that flushes the transcript and the summary of a completed
\* call and keeps its state and buffer.
Status_KeepsState(c, call_status) ==
    LET transcript_lines == BufferOf(c)
        index == Len(files) + 1
        summary == [call_sid |-> c, transcript_file |-> index]
    IN /\ IF c # None /\ call_status = "completed"
          THEN /\ Len(files) < MaxFiles
               /\ files' = Append(files, [index |-> index, call_sid |-> c,
                                          lines |-> transcript_lines])
               /\ callLog' = Append(callLog, summary)
          ELSE UNCHANGED <<files, callLog>>
       /\ UNCHANGED <<calls, transcripts, bookingRequests, table, bookings,
                      ended, resp, gateway, late, out, procs, store>>

\* POST /status; c is None when the form carries no CallSid.
Status(c, call_status) ==
    LET state == GetState(c)
        transcript_lines == BufferOf(c)
        index == Len(files) + 1
        summary == [call_sid |-> c, transcript_file |-> index]
    IN /\ IF c # None /\ call_status = "completed"
          THEN /\ Len(files) < MaxFiles
               /\ files' = Append(files, [index |-> index, call_sid |-> c,
                                          lines |-> transcript_lines])
               /\ bookingRequests' =
                     IF state.intent = "booking"
                        /\ state.requested_time # NoReq
                        /\ ~state.booking_logged
                     THEN Append(bookingRequests,
                                 [call_sid |-> c,
                                  caller_name |-> state.caller_name,
                                  requested_time |-> state.requested_time])
                     ELSE bookingRequests
               /\ callLog' = Append(callLog, summary)
               /\ calls' = Remove(calls, c)
               /\ transcripts' = Remove(transcripts, c)
          ELSE UNCHANGED <<files, bookingRequests, callLog, calls,
                           transcripts>>
       /\ UNCHANGED <<table, bookings, ended, resp, gateway, late, out,
                      procs, store>>

Next ==
    \/ \E c \in CallIds : Voice(c)
    \/ \E c \in CallIds, u \in Vocabulary \cup {Silence},
          confidence \in Confidences : GatherIntent(c, u, confidence)
    \/ \E c \in CallIds, u \in Vocabulary \cup {Silence},
          confidence \in Confidences : GatherBooking(c, u, confidence)
    \/ \E c \in CallIds, call_status \in Statuses : Status(c, call_status)

Spec == Init /\ [][Next]_vars

(***************************************************************************)
(* SpecEvents: every event the gateway can post for a call, well formed or *)
(* not: the turn events and status callbacks of Spec with few utterances,  *)
(* and the same events arriving without a call identifier.                 *)
(***************************************************************************)
Routes == {"/voice", "/gather-intent", "/gather-booking"}

\* What the caller of SpecEvents may say on a turn.
EventVocabulary == {U_bye, U_hours, U_book}

\* A turn route that takes an event without CallSid as the first event of a
\* call whose identifier is empty.
MissingCallSid_OpensCall(route) ==
    /\ calls' = Put(calls, None, [InitialState EXCEPT !.greeted = TRUE])
    /\ transcripts' = Put(transcripts, None, "lines")
    /\ resp' = [call |-> None, route |-> route, kind |-> "gather",
                action |-> "/gather-intent", prompt |-> "opening"]
    /\ UNCHANGED <<table, bookings, out, procs, files, callLog,
                   bookingRequests, ended, gateway, late, store>>

\* A turn route receives a form without CallSid and returns
\* _missing_call_sid_response() before any state is fetched.
MissingCallSid(route) ==
    /\ resp' = [call |-> None, route |-> route, kind |-> "goodbye",
                action |-> None, prompt |-> "fallback_goodbye"]
    /\ UNCHANGED <<table, bookings, out, procs, calls, transcripts, files,
                   callLog, bookingRequests, ended, gateway, late, store>>

NextEvents ==
    \/ \E c \in CallIds : Voice(c)
    \/ \E c \in CallIds, u \in EventVocabulary \cup {Silence} :
          GatherIntent(c, u, NoConf)
    \/ \E c \in CallIds, u \in EventVocabulary \cup {Silence} :
          GatherBooking(c, u, NoConf)
    \/ \E c \in CallIds \cup {None}, call_status \in Statuses :
          Status(c, call_status)
    \/ \E route \in Routes : MissingCallSid(route)

SpecEvents == Init /\ [][NextEvents]_vars

(***************************************************************************)
(* SpecCalls: two calls in progress at once, their turns handled one at a  *)
(* time in any order.  The gateway posts /voice when a call connects and   *)
(* the callers book: they name a treatment, a day, a time and themselves   *)
(* and say yes, each answer being one the handler of the stage accepts.    *)
(* Both callers compete for the same free slot.                            *)
(***************************************************************************)
Callers == {"CA1", "CA2"}

\* What a booking caller may say on a turn.
BookingVocabulary == {U_bookhyg, U_tomorrow, U_9, U_jane, U_yes}

InitCalls ==
    /\ table = InitialTable
    /\ bookings = <<>>
    /\ out = NoOut
    /\ procs = [p \in 1..NumProcs |-> IdleProc]
    /\ calls = EmptyMap
    /\ transcripts = EmptyMap
    /\ files = <<>>
    /\ callLog = <<>>
    /\ bookingRequests = <<>>
    /\ ended = {}
    /\ resp = NoResp
    /\ gateway = [c \in Callers |-> "none"]
    /\ late = 0
    /\ store = IdleStore

\* POST /voice as the call connects.
CallConnects(c) ==
    /\ ~GetState(c).greeted
    /\ Voice(c)

\* POST /gather-intent with an answer that is not counted as a retry.
CallerAnswersIntent(c, u) ==
    /\ GatherIntent(c, u, NoConf)
    /\ calls'[c].retries = 0

\* POST /gather-booking with an answer that is not counted as a retry.
CallerAnswersBooking(c, u) ==
    /\ GatherBooking(c, u, NoConf)
    /\ calls'[c].retries = 0

NextCalls ==
    \/ \E c \in Callers : CallConnects(c)
    \/ \E c \in Callers, u \in BookingVocabulary :
          CallerAnswersIntent(c, u)
    \/ \E c \in Callers, u \in BookingVocabulary :
          CallerAnswersBooking(c, u)

SpecCalls == InitCalls /\ [][NextCalls]_vars

(***************************************************************************)
(* SpecRebook: one caller who books, and books again in the same call: the *)
(* turns of SpecCalls for a single call, with both free times sayable.     *)
(***************************************************************************)
RebookVocabulary == BookingVocabulary \cup {U_4pm}

NextRebook ==
    \/ \E c \in CallIds : CallConnects(c)
    \/ \E c \in CallIds, u \in RebookVocabulary : CallerAnswersIntent(c, u)
    \/ \E c \in CallIds, u \in RebookVocabulary : CallerAnswersBooking(c, u)

SpecRebook == Init /\ [][NextRebook]_vars

(***************************************************************************)
(* SpecStore: NumThreads threads call _get_state(create=True),             *)
(* _get_state(create=False) and _pop_state on the call-state map at once.  *)
(* Each call takes _state_lock, runs the statements of its body one at a   *)
(* time and releases the lock as it returns; the statements of different   *)
(* threads interleave freely.  CallStateStore of app/state.py has the same *)
(* three operations with the same bodies under its own lock.               *)
(***************************************************************************)
StoreOps == {"get_or_create", "get", "remove"}

\* A thread enters one of the three operations.
StoreCall(p, op, call_sid) ==
    /\ store.threads[p].pc = "idle"
    /\ store' = [store EXCEPT !.threads[p] =
                    [IdleThread EXCEPT !.pc = "acquire", !.op = op,
                                       !.call_sid = call_sid]]
    /\ UNCHANGED <<table, bookings, out, procs, calls, transcripts, files,
                   callLog, bookingRequests, ended, resp, gateway, late>>

\* The operations entered without taking the lock.
StoreAcquire_NoLock(p) ==
    /\ store.threads[p].pc = "acquire"
    /\ store' = [store EXCEPT
                    !.lock = p,
                    !.threads[p].pc = IF store.threads[p].op = "remove"
                                      THEN "pop" ELSE "get"]
    /\ UNCHANGED <<table, bookings, out, procs, calls, transcripts, files,
                   callLog, bookingRequests, ended, resp, gateway, late>>

\* with _state_lock: the thread waits until the lock is free and takes it.
StoreAcquire(p) ==
    /\ store.threads[p].pc = "acquire"
    /\ store.lock = 0
    /\ store' = [store EXCEPT
                    !.lock = p,
                    !.threads[p].pc = IF store.threads[p].op = "remove"
                                      THEN "pop" ELSE "get"]
    /\ UNCHANGED <<table, bookings, out, procs, calls, transcripts, files,
                   callLog, bookingRequests, ended, resp, gateway, late>>

\* state = _call_states.get(call_sid)
StoreGet(p) ==
    LET me    == store.threads[p]
        found == IF me.call_sid \in DOMAIN store.states
                 THEN store.states[me.call_sid] ELSE 0
    IN /\ me.pc = "get"
       /\ store' = [store EXCEPT
                       !.threads[p].state = found,
                       !.threads[p].removes = store.removes,
                       !.threads[p].pc =
                           IF found = 0 /\ me.op = "get_or_create"
                           THEN "create" ELSE "release"]
       /\ UNCHANGED <<table, bookings, out, procs, calls, transcripts,
                      files, callLog, bookingRequests, ended, resp, gateway,
                      late>>

\* state = _initial_state(call_sid, ...); _call_states[call_sid] = state
StoreCreate(p) ==
    LET me  == store.threads[p]
        new == store.allocated + 1
    IN /\ me.pc = "create"
       /\ store' = [store EXCEPT
                       !.allocated = new,
                       !.states = Put(store.states, me.call_sid, new),
                       !.threads[p].state = new,
                       !.threads[p].pc = "release"]
       /\ UNCHANGED <<table, bookings, out, procs, calls, transcripts,
                      files, callLog, bookingRequests, ended, resp, gateway,
                      late>>

\* return _call_states.pop(call_sid, None)
StorePop(p) ==
    LET me == store.threads[p]
    IN /\ me.pc = "pop"
       /\ store' = [store EXCEPT
                       !.states = Remove(store.states, me.call_sid),
                       !.removes = @ + 1,
                       !.threads[p].state =
                           IF me.call_sid \in DOMAIN store.states
                           THEN store.states[me.call_sid] ELSE 0,
                       !.threads[p].removes = store.removes,
                       !.threads[p].pc = "release"]
       /\ UNCHANGED <<table, bookings, out, procs, calls, transcripts,
                      files, callLog, bookingRequests, ended, resp, gateway,
                      late>>

\* The with block is left: the lock is released and the operation returns.
StoreRelease(p) ==
    /\ store.threads[p].pc = "release"
    /\ store' = [store EXCEPT !.lock = 0, !.threads[p].pc = "done"]
    /\ UNCHANGED <<table, bookings, out, procs, calls, transcripts, files,
                   callLog, bookingRequests, ended, resp, gateway, late>>

NextStore ==
    \/ \E p \in 1..NumThreads, op \in StoreOps, call_sid \in CallIds :
          StoreCall(p, op, call_sid)
    \/ \E p \in 1..NumThreads : StoreAcquire(p)
    \/ \E p \in 1..NumThreads : StoreGet(p)
    \/ \E p \in 1..NumThreads : StoreCreate(p)
    \/ \E p \in 1..NumThreads : StorePop(p)
    \/ \E p \in 1..NumThreads : StoreRelease(p)

SpecStore == Init /\ [][NextStore]_vars

(***************************************************************************)
(* SpecSlots: one caller books on a day whose two slots were provisioned   *)
(* in either storage order, each free or already taken.                    *)
(***************************************************************************)
\* The tables the practice may have provisioned for tomorrow.
SlotRows(t) == {AvailableRow(1, t), BookedRow(1, t, "Walkin", "Check-up")}
SlotTables ==
    {<<r1, r2>> : r1 \in SlotRows(900), r2 \in SlotRows(1600)}
    \cup {<<r1, r2>> : r1 \in SlotRows(1600), r2 \in SlotRows(900)}

\* What the caller of SpecSlots may say on a turn.
SlotVocabulary ==
    {U_bookhyg, U_tomorrow, U_9, U_4pm, U_whenever, U_anytime, U_jane, U_yes}

InitSlots ==
    /\ table \in SlotTables
    /\ bookings = <<>>
    /\ out = NoOut
    /\ procs = [p \in 1..NumProcs |-> IdleProc]
    /\ NoCalls

NextSlots ==
    \/ \E c \in CallIds : CallConnects(c)
    \/ \E c \in CallIds, u \in SlotVocabulary : GatherIntent(c, u, NoConf)
    \/ \E c \in CallIds, u \in SlotVocabulary : GatherBooking(c, u, NoConf)

SpecSlots == InitSlots /\ [][NextSlots]_vars

(***************************************************************************)
(* SpecNlp: the text functions of app/nlp.py and app/intent.py.  The       *)
(* process starts with the arguments of one call in out (the text, the     *)
(* list of available start times, the weekday today_date() falls on) and   *)
(* a step applies a function to them and keeps the result.                 *)
(***************************************************************************)
\* The arguments of a call that has not been made.
NlpOut(today, u, available_hhmm) ==
    [op |-> "none", today |-> today, u |-> u, available |-> available_hhmm,
     date |-> NoDate, time |-> NoTime, spoken |-> NoSpoken, tag |-> None]

\* What a caller may say for the day.
DayVocabulary ==
    {WeekdayUtterance(idx) : idx \in 0..6} \cup {U_today, U_tomorrow, U_jane}

\* What a caller may say for the time.
TimeVocabulary ==
    {U_4, U_4pm, U_16, U_9, U_430, U_4colon30, U_4space30, U_jane}

\* The start times a list of available slots is drawn from, and the lists.
MaxAvailable == 2
SlotTimes == {400, 430, 930, 1600, 1630}
AvailableLists == UNION {[1..k -> SlotTimes] : k \in 0..MaxAvailable}

\* The clock times a caller may say. Hours 0 and 13 are not clock hours of
\* the 12-hour form.
ClockVocabulary ==
    {ClockUtterance(h, ampm) : h \in 0..13, ampm \in {"am", "pm"}}
    \cup {U_4colon30, U_16, U_jane}

\* What a caller may say to the classifier: every combination of scans.
ClassVocabulary ==
    {ClassUtterance(kw, garage, explicit, svc) :
        kw \in SUBSET KeywordClasses, garage \in {None, "mot_info"},
        explicit \in BOOLEAN, svc \in {None, "hygiene"}}
    \cup {Silence}

InitNlp ==
    /\ out \in {NlpOut(today, u, <<>>) :
                    today \in 0..6, u \in DayVocabulary}
              \cup {NlpOut(TodayWeekday, u, available_hhmm) :
                    u \in TimeVocabulary, available_hhmm \in AvailableLists}
              \cup {NlpOut(TodayWeekday, u, <<>>) :
                    u \in ClockVocabulary \cup ClassVocabulary}
    /\ table = <<>>
    /\ bookings = <<>>
    /\ procs = [p \in 1..NumProcs |-> IdleProc]
    /\ NoCalls

\* nlp.parse_date_phrase(text)
NlpParseDate ==
    /\ out.op = "none"
    /\ out.u \in DayVocabulary
    /\ out' = [out EXCEPT !.op = "parse_date_phrase",
                          !.date = ParseDatePhrase(out.u, out.today)]
    /\ UNCHANGED <<table, bookings, procs, callVars>>

\* nlp.fuzzy_pick_time(user_text, available_hhmm)
NlpPickTime ==
    /\ out.op = "none"
    /\ out.u \in TimeVocabulary
    /\ out' = [out EXCEPT !.op = "fuzzy_pick_time",
                          !.time = FuzzyPickTime(out.u, out.available)]
    /\ UNCHANGED <<table, bookings, procs, callVars>>

\* nlp.hhmm_to_12h(nlp.normalize_time(text))
NlpSpeakTime ==
    /\ out.op = "none"
    /\ out.u \in ClockVocabulary
    /\ out' = [out EXCEPT !.op = "hhmm_to_12h",
                          !.time = NormalizeTime(out.u),
                          !.spoken = HhmmTo12h(NormalizeTime(out.u))]
    /\ UNCHANGED <<table, bookings, procs, callVars>>

\* intent.classify(speech)
NlpClassify ==
    /\ out.op = "none"
    /\ out.u \in ClassVocabulary
    /\ out' = [out EXCEPT !.op = "classify", !.tag = Classify(out.u)]
    /\ UNCHANGED <<table, bookings, procs, callVars>>

NextNlp ==
    \/ NlpParseDate
    \/ NlpPickTime
    \/ NlpSpeakTime
    \/ NlpClassify

SpecNlp == InitNlp /\ [][NextNlp]_vars

(***************************************************************************)
(* SpecSched: the slot-table operations, one call at a time, on every      *)
(* table of at most MaxRows rows.                                          *)
(***************************************************************************)
\* A row as provisioned: free, or taken by an earlier booking.
RowChoices ==
    {AvailableRow(d, t) : d \in Dates, t \in Times}
    \cup {BookedRow(d, t, "Walkin", "Check-up") : d \in Dates, t \in Times}

TablesUpTo(n) == UNION {[1..k -> RowChoices] : k \in 0..n}

InitSched ==
    /\ table \in TablesUpTo(MaxRows)
    /\ bookings = <<>>
    /\ out = NoOut
    /\ procs = [p \in 1..NumProcs |-> IdleProc]
    /\ NoCalls

\* avail = schedule.list_available(date=date, limit=limit)
SchedList(date, limit) ==
    /\ out' = [NoOut EXCEPT !.op = "list_available", !.date = date,
                            !.limit = limit,
                            !.rows = ListAvailable(table, date, limit)]
    /\ UNCHANGED <<table, bookings, procs, callVars>>

\* schedule.find_next_available(after_date)
SchedFindNext ==
    /\ out' = [NoOut EXCEPT !.op = "find_next_available",
                            !.rows = LET r == FindNextAvailable(table)
                                     IN IF r = NoRow THEN <<>> ELSE <<r>>]
    /\ UNCHANGED <<table, bookings, procs, callVars>>

\* ok = schedule.reserve_slot(date, start_time, name, appt_type)
SchedReserve(date, start_time, name, appt_type) ==
    LET r == ReserveSlot(table, bookings, date, start_time, name, appt_type)
    IN /\ table' = r.table
       /\ bookings' = r.bookings
       /\ out' = [NoOut EXCEPT !.op = "reserve_slot", !.date = date,
                               !.start_time = start_time, !.name = name,
                               !.appt_type = appt_type, !.ok = r.ok]
       /\ UNCHANGED <<procs, callVars>>

NextSched ==
    \/ \E date \in Dates \cup {NoDate}, limit \in 0..MaxLimit :
          SchedList(date, limit)
    \/ SchedFindNext
    \/ \E date \in Dates, start_time \in Times, name \in Names,
          appt_type \in ApptInputs :
          SchedReserve(date, start_time, name, appt_type)

SpecSched == InitSched /\ [][NextSched]_vars

(***************************************************************************)
(* SpecRace: NumProcs requests run reserve_slot at once.  Each call reads  *)
(* the file into its own frame (load_schedule), decides and mutates that   *)
(* frame, writes the whole frame back (save_schedule), appends its line to *)
(* the bookings log and returns.  No lock is taken anywhere in             *)
(* reserve_slot, so the steps of different calls interleave freely; a file *)
(* read or write is one step.                                              *)
(***************************************************************************)
\* The patient name each racing request books under.
ProcNames == <<"Alice", "Bob", "Carol", "Dave">>

\* The tables the race starts from: two rows of one day, each free or taken.
RaceTables ==
    {<<r1, r2>> : r1 \in {AvailableRow(1, 900),
                          BookedRow(1, 900, "Walkin", "Check-up")},
                  r2 \in {AvailableRow(1, 1600),
                          BookedRow(1, 1600, "Walkin", "Check-up")}}

InitRace ==
    /\ table \in RaceTables
    /\ bookings = <<>>
    /\ out = NoOut
    /\ procs = [p \in 1..NumProcs |-> IdleProc]
    /\ NoCalls

\* reserve_slot is entered and runs df = load_schedule().
RaceLoad(p, start_time, appt_type) ==
    /\ procs[p].pc = "idle"
    /\ procs' = [procs EXCEPT ![p] =
                    [pc |-> "loaded", date |-> 1, start_time |-> start_time,
                     name |-> ProcNames[p], appt_type |-> appt_type,
                     df |-> table, result |-> FALSE]]
    /\ UNCHANGED <<table, bookings, out, callVars>>

\* The mask, the two early returns and the df.loc assignments.
RaceCheck(p) ==
    /\ procs[p].pc = "loaded"
    /\ LET me == procs[p]
           r  == ReserveCheck(me.df, me.date, me.start_time, me.name,
                              me.appt_type)
       IN procs' = [procs EXCEPT ![p] =
                      [me EXCEPT !.pc = IF r.ok THEN "mutated" ELSE "done",
                                 !.df = r.df, !.result = FALSE]]
    /\ UNCHANGED <<table, bookings, out, callVars>>

\* save_schedule(df): the whole frame replaces the file.
RaceSave(p) ==
    /\ procs[p].pc = "mutated"
    /\ table' = procs[p].df
    /\ procs' = [procs EXCEPT ![p].pc = "saved"]
    /\ UNCHANGED <<bookings, out, callVars>>

\* The line appended to the bookings log, and return True.
RaceLog(p) ==
    /\ procs[p].pc = "saved"
    /\ bookings' = Append(bookings, <<procs[p].date, procs[p].start_time,
                                      procs[p].name, procs[p].appt_type>>)
    /\ procs' = [procs EXCEPT ![p].pc = "done", ![p].result = TRUE]
    /\ UNCHANGED <<table, out, callVars>>

NextRace ==
    \E p \in 1..NumProcs :
        \/ \E start_time \in Times, appt_type \in ApptInputs :
              RaceLoad(p, start_time, appt_type)
        \/ RaceCheck(p)
        \/ RaceSave(p)
        \/ RaceLog(p)

SpecRace == InitRace /\ [][NextRace]_vars

(***************************************************************************)
(* Claims about the slot table.                                            *)
(***************************************************************************)
Returned(p) == procs[p].pc = "done"
SameRow(p, q) ==
    procs[p].date = procs[q].date /\ procs[p].start_time = procs[q].start_time

\* C2: of the reserve_slot calls racing on one (date, start_time) row at most
\* one returns true, and once all have returned the row carries the name and
\* type of the call that returned true.
C2_AtMostOneReservationWins ==
    /\ \A p, q \in 1..NumProcs :
          (p # q /\ Returned(p) /\ Returned(q) /\ SameRow(p, q))
              => ~(procs[p].result /\ procs[q].result)
    /\ (\A p \in 1..NumProcs : Returned(p)) =>
          \A p \in 1..NumProcs : procs[p].result =>
              \A i \in MaskIndices(table, procs[p].date, procs[p].start_time) :
                  /\ table[i].patient_name = procs[p].name
                  /\ table[i].appointment_type = procs[p].appt_type

\* C3: a row of the persisted table that is Booked stays Booked in every
\* later state.
C3_BookedNeverReverts ==
    [][\A i \in DOMAIN table :
          table[i].status = "Booked" =>
              (i \in DOMAIN table' /\ table'[i].status = "Booked")]_vars

\* C5: every row list_available returns has status Available.
C5_ListedRowsAreAvailable ==
    out.op = "list_available" =>
        \A i \in DOMAIN out.rows : out.rows[i].status = "Available"

\* C5 witness: rows were returned although the table holds a Booked row that
\* passes the date filter.
C5_Witness ==
    /\ out.op = "list_available"
    /\ out.rows # <<>>
    /\ \E i \in DOMAIN table :
          /\ table[i].status = "Booked"
          /\ out.date \in {NoDate, table[i].date}

\* The Available rows of a date, as a set of indices into the table.
AvailableOn(tbl, date) ==
    {i \in DOMAIN tbl : tbl[i].status = "Available" /\ tbl[i].date = date}

MinNat(a, b) == IF a <= b THEN a ELSE b

\* C6: list_available(date, limit) returns the Available rows of the date in
\* ascending start_time order, whatever the storage order, cut to the
\* earliest `limit` of them.
C6_ListedRowsAreSortedEarliest ==
    (out.op = "list_available" /\ out.date # NoDate) =>
        LET avail == AvailableOn(table, out.date)
        IN /\ Len(out.rows) = MinNat(out.limit, Cardinality(avail))
           /\ \A i \in DOMAIN out.rows :
                 /\ out.rows[i].status = "Available"
                 /\ out.rows[i].date = out.date
           /\ \A i, j \in DOMAIN out.rows :
                 i < j => out.rows[i].start_time <= out.rows[j].start_time
           /\ \A i \in DOMAIN out.rows :
                 Cardinality({k \in avail :
                                table[k].start_time < out.rows[i].start_time})
                     < out.limit

\* C7: reserve_slot returns false when no row matches (date, start_time) or
\* no matching row is Available, and a call that returns false leaves the
\* table and the bookings log as they were.
C7_FailedReserveChangesNothing ==
    [][out'.op = "reserve_slot" =>
          LET idx == MaskIndices(table, out'.date, out'.start_time)
          IN /\ (idx = {} \/ \A i \in idx : table[i].status # "Available")
                    => ~out'.ok
             /\ ~out'.ok => (table' = table /\ bookings' = bookings)]_vars

\* C7 witness: a reserve_slot call on a row that exists has returned false.
C7_Witness ==
    /\ out.op = "reserve_slot"
    /\ ~out.ok
    /\ MaskIndices(table, out.date, out.start_time) # {}

\* C8: when reserve_slot returns true the row matching (date, start_time) is
\* saved as Booked with the given name and type, and every other row is
\* saved as it was.
C8_ReserveBooksOnlyTheRow ==
    [][(out'.op = "reserve_slot" /\ out'.ok) =>
          LET idx == MaskIndices(table, out'.date, out'.start_time)
          IN /\ idx # {}
             /\ DOMAIN table' = DOMAIN table
             /\ \A i \in DOMAIN table :
                   IF i \in idx
                   THEN table'[i] = [table[i] EXCEPT
                                        !.status = "Booked",
                                        !.patient_name = out'.name,
                                        !.appointment_type = out'.appt_type]
                   ELSE table'[i] = table[i]]_vars

\* C8 witness: a reservation succeeded in a table that holds another row, of
\* the same date, that is still Available.
C8_Witness ==
    /\ out.op = "reserve_slot"
    /\ out.ok
    /\ \E i \in DOMAIN table :
          /\ table[i].date = out.date
          /\ table[i].start_time # out.start_time
          /\ table[i].status = "Available"

(***************************************************************************)
(* Claims about the call engine.                                           *)
(***************************************************************************)
\* A turn event of call c with speech u is handled in this step.
SpeechTurn(c, u, confidence) ==
    GatherIntent(c, u, confidence) \/ GatherBooking(c, u, confidence)

\* The utterances classify tags as booking, and those that say goodbye or
\* are a negative response.
BookingUtterances == {u \in Vocabulary : Classify(u) = "booking"}
ClosingUtterances == {u \in Vocabulary : Classify(u) = "goodbye" \/ u.neg}

NonTerminalStages ==
    {"intent", "follow_up", "booking_type", "booking_date", "booking_time",
     "booking_name", "booking_confirm"}

\* C1: once a goodbye has moved a call to stage completed, every later
\* event for it on /voice, /gather-intent or /gather-booking is answered
\* with a bare hangup, whatever status callbacks came in between.
C1_CompletedCallStaysClosed ==
    [][\A c \in CallIds :
          (c \in ended /\ resp'.call = c /\ (resp' # resp \/ late' # late))
              => resp'.kind = "hangup"]_vars

\* C4: however often the completed status callback is delivered for a call
\* identifier, one transcript file is written and one call summary is
\* appended for it.
C4_CompletionIsIdempotent ==
    \A c \in CallIds :
        /\ Cardinality({i \in DOMAIN files : files[i].call_sid = c}) <= 1
        /\ Cardinality({i \in DOMAIN callLog : callLog[i].call_sid = c}) <= 1

\* C9: in every non-terminal stage a turn whose intent is goodbye, or whose
\* text is a negative response, returns the goodbye directive and leaves
\* the call in stage completed.
C9_GoodbyeEndsTheCall ==
    [][\A c \in CallIds, u \in ClosingUtterances, confidence \in Confidences :
          (/\ c \in DOMAIN calls
           /\ calls[c].stage \in NonTerminalStages
           /\ ~calls[c].ending
           /\ SpeechTurn(c, u, confidence))
              => (resp'.kind = "goodbye" /\ calls'[c].stage = "completed")]_vars

\* The utterance holds an appointment-type or service word.
HasTypeWord(u) == u.svc # None \/ u.apptkw # None \/ u.typeword # None

AffirmUtterances ==
    {u \in Vocabulary : Classify(u) = "affirm" \/ u.pos}

\* The prompts that speak the free times of the captured date.
SpeaksFreeTimes(prompt) ==
    prompt \in {"booking_time_prompt", "booking_time_reprompt"}

\* C11: when the caller affirms in booking_confirm and reserve_slot returns
\* false, the turn clears booking_time, stores a fresh availability query
\* for the captured date, sets stage booking_date, books nothing, and the
\* response presents the caller with the free times left on that date.
C11_TakenSlotReturnsToSelection ==
    [][\A c \in Callers, u \in AffirmUtterances :
          (/\ c \in DOMAIN calls
           /\ calls[c].stage = "booking_confirm"
           /\ ~calls[c].ending
           /\ calls[c].booking_date # NoDate
           /\ calls[c].booking_time # NoTime
           /\ calls[c].caller_name # None
           /\ calls[c].booking_appt_type # None
           /\ ~ReserveSlot(table, bookings, calls[c].booking_date,
                           calls[c].booking_time, calls[c].caller_name,
                           calls[c].booking_appt_type).ok
           /\ GatherBooking(c, u, NoConf))
              => /\ calls'[c].booking_time = NoTime
                 /\ calls'[c].booking_available_times =
                       AvailableSlotsForDate(calls[c].booking_date)
                 /\ calls'[c].stage = "booking_date"
                 /\ table' = table
                 /\ bookings' = bookings
                 /\ calls'[c].booking_logged = calls[c].booking_logged
                 /\ SpeaksFreeTimes(resp'.prompt)]_vars

\* C12: with the silence maximum set to 2, the second of two consecutive
\* silent turns in stage booking_name returns the goodbye directive and
\* sets stage completed.
C12_SecondSilenceInNameEndsCall ==
    [][\A c \in CallIds, confidence \in Confidences :
          (/\ MAX_SILENCE_REPROMPTS = 2
           /\ c \in DOMAIN calls
           /\ calls[c].stage = "booking_name"
           /\ ~calls[c].ending
           /\ calls[c].silence_count = 1
           /\ GatherBooking(c, Silence, confidence))
              => (resp'.kind = "goodbye" /\ calls'[c].stage = "completed")]_vars

\* C13: after a silent turn in stage follow_up, the next silent turn
\* returns the goodbye directive, whatever the silence maximum.
C13_SecondSilenceInFollowUpEndsCall ==
    [][\A c \in CallIds, confidence \in Confidences :
          (/\ c \in DOMAIN calls
           /\ calls[c].stage = "follow_up"
           /\ ~calls[c].ending
           /\ calls[c].silence_count = 1
           /\ GatherIntent(c, Silence, confidence))
              => (resp'.kind = "goodbye" /\ calls'[c].stage = "completed")]_vars

\* C14: a turn event without a call identifier is answered with the
\* terminal goodbye directive and leaves the call states, the transcript
\* buffers, the transcript files and the call summaries as they were; no
\* state, buffer, file or summary ever exists for a missing identifier, so
\* a status callback without one changes nothing either.
C14_MissingCallSidChangesNothing ==
    /\ [](/\ None \notin DOMAIN calls
          /\ None \notin DOMAIN transcripts
          /\ \A i \in DOMAIN files : files[i].call_sid # None
          /\ \A i \in DOMAIN callLog : callLog[i].call_sid # None)
    /\ [][(resp'.call = None /\ resp' # resp)
             => /\ resp'.kind = "goodbye"
                /\ UNCHANGED <<calls, transcripts, files, callLog,
                               bookingRequests, table, bookings, ended>>]_vars

\* C14 witness: an event without identifier was answered with the goodbye
\* while a call was live and a transcript file was already written.
C14_Witness ==
    /\ resp.call = None
    /\ resp.kind = "goodbye"
    /\ calls # EmptyMap
    /\ files # <<>>

\* The get-or-create calls that have their result.
GotState(p) ==
    /\ store.threads[p].op = "get_or_create"
    /\ store.threads[p].pc \in {"release", "done"}

\* C15: under every interleaving of get-or-create, get and remove calls on
\* the call-state map, the get-or-create calls for one identifier with no
\* removal between them return the same state object, and the object a
\* call returns is the one object held for the identifier until a removal.
C15_OneStatePerCallSid ==
    /\ \A p, q \in 1..NumThreads :
          (/\ GotState(p) /\ GotState(q)
           /\ store.threads[p].call_sid = store.threads[q].call_sid
           /\ store.threads[p].removes = store.threads[q].removes)
              => store.threads[p].state = store.threads[q].state
    /\ \A p \in 1..NumThreads :
          (GotState(p) /\ store.threads[p].removes = store.removes)
              => /\ store.threads[p].call_sid \in DOMAIN store.states
                 /\ store.states[store.threads[p].call_sid]
                       = store.threads[p].state

\* C15 witness: two get-or-create calls returned the same object and a
\* third thread has removed it since.
C15_Witness ==
    \E p, q, r \in 1..NumThreads :
        /\ p # q
        /\ GotState(p) /\ GotState(q)
        /\ store.threads[p].pc = "done" /\ store.threads[q].pc = "done"
        /\ store.threads[p].state = store.threads[q].state
        /\ store.threads[r].op = "remove"
        /\ store.threads[r].pc = "done"
        /\ store.threads[r].state = store.threads[p].state

\* The stages of a call.
Stages == NonTerminalStages \cup {"completed"}

\* C16: after any sequence of turns, silences and status callbacks the
\* stage of every call state is one of the eight stages.
C16_StageIsAlwaysDefined ==
    \A c \in DOMAIN calls : calls[c].stage \in Stages

\* C16 witness: a call that went through the booking stages as far as a
\* captured time was ended by silence.
C16_Witness ==
    \E c \in DOMAIN calls :
        /\ calls[c].stage = "completed"
        /\ calls[c].booking_time # NoTime
        /\ calls[c].silence_count > MAX_SILENCE_REPROMPTS

\* What a turn of call c captured, read off the state before and after.
CapturedType(c) ==
    /\ calls'[c].booking_appt_type # None
    /\ calls'[c].booking_appt_type # GetState(c).booking_appt_type
CapturedDate(c) ==
    /\ calls'[c].booking_date # NoDate
    /\ calls'[c].booking_available_times # <<>>
    /\ calls'[c].booking_date # GetState(c).booking_date
CapturedTime(c) ==
    /\ calls'[c].booking_time # NoTime
    /\ calls'[c].booking_time # GetState(c).booking_time
CapturedName(c) ==
    /\ calls'[c].caller_name # None
    /\ calls'[c].caller_name # GetState(c).caller_name
AcceptedSuggestion(c) ==
    /\ GetState(c).booking_suggested_slot # NoRow
    /\ calls'[c].booking_time = GetState(c).booking_suggested_slot.start_time
    /\ calls'[c].stage = "booking_name"
Reserved(c) ==
    /\ bookings' # bookings
    /\ calls'[c].booking_logged

\* C17: retries and silence_count are never negative, and both are zero
\* at the end of every turn that captured an appointment type, a date with
\* availability, a time, a caller name, an accepted suggested slot or a
\* successful reservation.
C17_CountersResetOnProgress ==
    /\ [](\A c \in DOMAIN calls :
             calls[c].retries >= 0 /\ calls[c].silence_count >= 0)
    /\ [][\A c \in CallIds, u \in Vocabulary, confidence \in Confidences :
             (/\ SpeechTurn(c, u, confidence)
              /\ resp'.kind = "gather"
              /\ (CapturedType(c) \/ CapturedDate(c) \/ CapturedTime(c)
                     \/ CapturedName(c) \/ AcceptedSuggestion(c)
                     \/ Reserved(c)))
                 => (calls'[c].retries = 0 /\ calls'[c].silence_count = 0)]_vars

\* C18: a completed status callback for a live call writes the transcript
\* file and appends the call summary in the step that removes the state,
\* after which neither a state nor a transcript buffer exists for the
\* identifier; a state is never removed without that flush, and a callback
\* with another status removes and persists nothing.
C18_CompletedFlushesThenRemoves ==
    [][\A c \in CallIds :
          LET index == Len(files) + 1
              flushed ==
                  /\ files' = Append(files, [index |-> index, call_sid |-> c,
                                             lines |-> BufferOf(c)])
                  /\ callLog' = Append(callLog,
                                       [call_sid |-> c,
                                        transcript_file |-> index])
          IN /\ (c \in DOMAIN calls /\ Status(c, "completed"))
                   => /\ flushed
                      /\ c \notin DOMAIN calls'
                      /\ c \notin DOMAIN transcripts'
             /\ (c \in DOMAIN calls /\ c \notin DOMAIN calls') => flushed
             /\ Status(c, "in-progress")
                   => UNCHANGED <<calls, transcripts, files, callLog,
                                  bookingRequests>>]_vars

\* C18 witness: the transcript of a call that had ended with a goodbye was
\* written with its lines and summarised, and the call has no state and no
\* buffer left.
C18_Witness ==
    \E i \in DOMAIN files :
        /\ files[i].lines = "lines"
        /\ files[i].call_sid \in ended
        /\ files[i].call_sid \notin DOMAIN calls
        /\ files[i].call_sid \notin DOMAIN transcripts
        /\ \E j \in DOMAIN callLog : callLog[j].transcript_file = i

\* C19: over the turns of one call, with several successful bookings and
\* booking-context resets, the consent notice is part of the response of
\* the first successful booking confirmation and of no other response.
C19_ConsentSpokenOnce ==
    [][\A c \in CallIds :
          /\ (resp'.call = c /\ resp'.prompt = "booking_confirmed_consent")
                => /\ ~GetState(c).consent_said
                   /\ bookings' # bookings
          /\ (resp'.call = c /\ bookings' # bookings)
                => /\ calls'[c].consent_said
                   /\ resp'.prompt = IF GetState(c).consent_said
                                     THEN "booking_confirmed"
                                     ELSE "booking_confirmed_consent"
          /\ (c \in DOMAIN calls /\ calls[c].consent_said)
                => (c \in DOMAIN calls' /\ calls'[c].consent_said)]_vars

\* C19 witness: the second booking of a call was confirmed without the
\* consent notice.
C19_Witness ==
    \E c \in DOMAIN calls :
        /\ Len(bookings) = 2
        /\ resp.call = c
        /\ resp.prompt = "booking_confirmed"
        /\ calls[c].consent_said

\* C20: whatever the call state, the turn input and the content of the
\* schedule, a date without free slots included, every turn returns a
\* listen directive or a terminal one and never ends in an unhandled
\* fault.
C20_EveryTurnReturnsADirective ==
    resp.kind \in {None, "gather", "goodbye", "hangup"}

(***************************************************************************)
(* Text functions (SpecNlp).                                               *)
(***************************************************************************)
\* C21: for every current date and every weekday name, parse_date_phrase
\* gives a date 1 to 7 days after today that falls on the named weekday,
\* exactly 7 days ahead for today's own weekday; "tomorrow" gives today
\* plus one day and "today" gives today.
C21_WeekdayIsStrictlyAhead ==
    out.op = "parse_date_phrase" =>
        /\ out.u.day = "weekday" =>
               /\ out.date \in 1..7
               /\ (out.today + out.date) % 7 = out.u.wd
               /\ (out.u.wd = out.today => out.date = 7)
        /\ out.u.day = "tomorrow" => out.date = 1
        /\ out.u.day = "today" => out.date = 0

C21_Witness ==
    /\ out.op = "parse_date_phrase"
    /\ out.u = WeekdayUtterance(3)
    /\ out.today = 3
    /\ out.date = 7

\* The values of a list of available start times.
Offered == {out.available[i] : i \in DOMAIN out.available}

\* C22: fuzzy_pick_time returns no match or a member of the available
\* list; a direct normalized time that is available wins; a bare hour is
\* tried as stated before its 12-hour-shifted complement, on the hour
\* before the half hour, the half hour only without am/pm; "430" against
\* 09:30 and 16:30 gives 16:30, and "4 pm" against a list without 16:00
\* gives no match.
C22_PickIsAvailableInOrder ==
    out.op = "fuzzy_pick_time" =>
        /\ out.time = NoTime \/ out.time \in Offered
        /\ NormalizeTime(out.u) \in Offered =>
               out.time = NormalizeTime(out.u)
        /\ out.u = U_4 /\ Offered = {400, 1600} => out.time = 400
        /\ out.u = U_4 /\ Offered = {430, 1600} => out.time = 1600
        /\ out.u = U_4 /\ Offered = {430, 1630} => out.time = 430
        /\ out.u = U_430 /\ Offered = {930, 1630} => out.time = 1630
        /\ out.u = U_4pm /\ 1600 \notin Offered => out.time = NoTime

\* The caller said an hour of the 12-hour clock with a marker.
SaidClockHour ==
    out.u.tkind = "hour" /\ out.u.ampm # None /\ out.u.th \in 1..12

\* C23: for every hour H in 1..12 and marker am or pm, the spoken form of
\* normalize_time("H am|pm") is hour H with the same marker; the
\* normalized time is the 24-hour time of H am|pm, 00:00 for 12 am and
\* 12:00 for 12 pm; the spoken form has minutes exactly when they are not
\* :00.
C23_SpokenTimeIsTheSaidTime ==
    out.op = "hhmm_to_12h" =>
        /\ SaidClockHour =>
               /\ out.time = ((out.u.th % 12)
                               + (IF out.u.ampm = "pm" THEN 12 ELSE 0)) * 100
               /\ out.spoken.hour = out.u.th
               /\ out.spoken.suffix = out.u.ampm
               /\ out.spoken.minute = NoTime
        /\ out.u = ClockUtterance(12, "am") => out.time = 0
        /\ out.u = ClockUtterance(12, "pm") => out.time = 1200
        /\ out.time # NoTime =>
               (out.spoken.minute = NoTime <=> out.time % 100 = 0)

C23_Witness ==
    /\ out.op = "hhmm_to_12h"
    /\ out.u = ClockUtterance(12, "pm")
    /\ out.time = 1200
    /\ out.spoken = [hour |-> 12, minute |-> NoTime, suffix |-> "pm"]

\* The classes of the classifier from highest to lowest priority, each
\* with whether the utterance matches it and the tag it stands for;
\* booking_matches says when the booking class counts as matched.
PriorityOrder(u, booking_matches) ==
    <<[match |-> "goodbye" \in u.kw, tag |-> "goodbye"],
      [match |-> "quote" \in u.kw /\ "booking" \notin u.kw,
       tag   |-> IF u.garage = None THEN "prices" ELSE "quote"],
      [match |-> "price" \in u.kw /\ "booking" \notin u.kw,
       tag   |-> "prices"],
      [match |-> booking_matches, tag |-> "booking"],
      [match |-> "address" \in u.kw, tag |-> "address"],
      [match |-> "availability" \in u.kw, tag |-> "availability"],
      [match |-> "hours" \in u.kw, tag |-> "hours"],
      [match |-> u.garage # None, tag |-> u.garage],
      [match |-> "price" \in u.kw, tag |-> "prices"],
      [match |-> "affirm" \in u.kw, tag |-> "affirm"],
      [match |-> u.svc # None, tag |-> "booking"],
      [match |-> TRUE, tag |-> None]>>

\* The tag of the first matching class of an order.
HighestPriorityTag(order) ==
    LET first == CHOOSE i \in DOMAIN order :
                    /\ order[i].match
                    /\ \A j \in 1..(i - 1) : ~order[j].match
    IN order[first].tag

\* C24 as stated: classify returns the tag of the highest-priority
\* matching class in the order goodbye, quote/price without booking,
\* booking, address, availability, hours, domain-specific intents, generic
\* price, affirmation, service name as booking, else None.
C24_TagOfHighestPriorityClass ==
    out.op = "classify" /\ out.u.text # "" =>
        out.tag = HighestPriorityTag(
                      PriorityOrder(out.u, "booking" \in out.u.kw))

\* C24 amended: the same order, where a booking keyword heard together
\* with an availability keyword counts as booking only if the text has an
\* explicit booking verb or names a service; otherwise the lower classes
\* decide.
C24_TagOfHighestPriorityClassUnlessAvailability ==
    out.op = "classify" =>
        out.tag =
            IF out.u.text = "" THEN None
            ELSE HighestPriorityTag(
                     PriorityOrder(out.u,
                         /\ "booking" \in out.u.kw
                         /\ \/ "availability" \notin out.u.kw
                            \/ out.u.explicit
                            \/ out.u.svc # None))

C24_Witness ==
    /\ out.op = "classify"
    /\ {"booking", "availability", "hours"} \subseteq out.u.kw
    /\ "goodbye" \notin out.u.kw
    /\ "address" \notin out.u.kw
    /\ ~out.u.explicit
    /\ out.u.svc = None
    /\ out.tag = "availability"

(***************************************************************************)
(* Time selection (SpecSlots).                                             *)
(***************************************************************************)
\* The start times the call holds for the chosen date.
HeldTimes(st) ==
    {st.booking_available_times[i] : i \in DOMAIN st.booking_available_times}

\* The caller names a time and no reading of it is among the held times.
AsksTimeOutside(st, u) ==
    /\ u.tkind # "none"
    /\ ~u.anytime
    /\ Classify(u) = None
    /\ HeldTimes(st) # {}
    /\ ParseTimeLike(u) \notin HeldTimes(st)
    /\ FuzzyPickTime(u, st.booking_available_times) = NoTime

EarliestFree(tbl, date) ==
    MinOf({tbl[i].start_time : i \in AvailableOn(tbl, date)})

\* C26: in stage booking_time a turn with an anytime phrase stores the
\* earliest start time free on the chosen date, whatever the storage order
\* of the table, and leaves stage booking_time.
C26_AnytimePicksEarliest ==
    [][\A c \in CallIds, u \in {v \in SlotVocabulary : v.anytime} :
          /\ GatherBooking(c, u, NoConf)
          /\ GetState(c).stage = "booking_time"
          /\ AvailableOn(table, GetState(c).booking_date) # {}
          => /\ calls'[c].booking_time
                    = EarliestFree(table, GetState(c).booking_date)
             /\ calls'[c].stage # "booking_time"]_vars

(***************************************************************************)
(* Date selection (Spec).                                                  *)
(***************************************************************************)
\* The utterances stage booking_date takes as a day: a day phrase that is
\* not also a goodbye, an information request or a yes or no.
DayUtterances ==
    {u \in Vocabulary : /\ ParseDatePhrase(u, TodayWeekday) # NoDate
                        /\ Classify(u) \in {None, "availability"}
                        /\ ~u.neg /\ ~u.pos}

\* C27: in stage booking_date, a parsed date with no available times is
\* answered by a listen directive that offers the next available slot of
\* the whole table, which is recorded as the suggested slot, and the stage
\* stays booking_date; a parsed date with available times has them stored
\* and the stage becomes booking_time.
C27_EmptyDateOffersNextSlot ==
    [][\A c \in CallIds, u \in DayUtterances,
          confidence \in Confidences :
          /\ GatherBooking(c, u, confidence)
          /\ GetState(c).stage = "booking_date"
          => LET slots == AvailableSlotsForDate(
                              ParseDatePhrase(u, TodayWeekday))
             IN IF slots = <<>>
                THEN /\ resp'.kind = "gather"
                     /\ calls'[c].stage = "booking_date"
                     /\ calls'[c].booking_suggested_slot
                            = FindNextAvailable(table)
                     /\ FindNextAvailable(table) # NoRow =>
                            resp'.prompt = "next_available_offer"
                ELSE /\ resp'.kind = "gather"
                     /\ calls'[c].stage = "booking_time"
                     /\ calls'[c].booking_available_times = slots]_vars

(***************************************************************************)
(* Name capture (Spec).                                                    *)
(***************************************************************************)
\* The utterances _extract_first_name finds no name in and no handler of
\* stage booking_name takes for something else.
NamelessUtterances ==
    {u \in Vocabulary : /\ u # Silence
                        /\ ExtractFirstName(u) = None
                        /\ Classify(u) = None}

\* max(int(max_silence_reprompts or 2), 2)
MaxNameAttempts == MaxInt(MAX_SILENCE_REPROMPTS, 2)

\* C28: in stage booking_name the failed name attempts of a call never
\* number more than the configured maximum (at least 2); a failed attempt
\* within the maximum is counted and reprompted in the same stage, and the
\* failed attempt after the maximum is answered by the goodbye directive
\* with stage completed.
C28_NameAttemptsAreBounded ==
    /\ [](\A c \in DOMAIN calls :
             calls[c].name_attempts <= MaxNameAttempts)
    /\ [][\A c \in CallIds, u \in NamelessUtterances,
             confidence \in Confidences :
             /\ GatherBooking(c, u, confidence)
             /\ GetState(c).stage = "booking_name"
             => IF GetState(c).name_attempts < MaxNameAttempts
                THEN /\ resp'.kind = "gather"
                     /\ resp'.prompt = "booking_name_reprompt"
                     /\ calls'[c].stage = "booking_name"
                     /\ calls'[c].name_attempts
                            = GetState(c).name_attempts + 1
                ELSE /\ resp'.kind = "goodbye"
                     /\ calls'[c].stage = "completed"]_vars

\* The call was ended on the failed name attempt after the maximum.
C28_Witness ==
    /\ "CA1" \in DOMAIN calls
    /\ calls["CA1"].stage = "completed"
    /\ resp.kind = "goodbye"
    /\ resp.route = "/gather-booking"
    /\ calls["CA1"].caller_name = None
    /\ calls["CA1"].booking_time # NoTime
    /\ calls["CA1"].retries = MaxNameAttempts + 1
    /\ calls["CA1"].silence_count = 0
    /\ calls["CA1"].name_attempts = 0

(***************************************************************************)
(* The top-level menu (Spec).                                              *)
(***************************************************************************)
\* The utterances the classifier has no tag for and that are not a yes or
\* a no either.
UnrecognizedUtterances ==
    {u \in Vocabulary : /\ u # Silence
                        /\ Classify(u) = None
                        /\ ~u.neg /\ ~u.pos}

\* C29: an unrecognized utterance in stage intent or follow_up adds one to
\* retries, leaves the call in stage intent listening on /gather-intent,
\* and is answered by the direct clarifier when the confidence is below
\* the threshold and by the generic reprompt otherwise.
C29_UnrecognizedCountsAsRetry ==
    [][\A c \in CallIds, u \in UnrecognizedUtterances,
          confidence \in Confidences :
          /\ GatherIntent(c, u, confidence)
          /\ GetState(c).stage \in {"intent", "follow_up"}
          /\ ~GetState(c).awaiting_price_service
          => /\ calls'[c].retries = GetState(c).retries + 1
             /\ calls'[c].stage = "intent"
             /\ resp'.kind = "gather"
             /\ resp'.action = "/gather-intent"
             /\ resp'.prompt =
                    IF confidence # NoConf /\ confidence < LowConfidence
                    THEN "clarifier" ELSE "soft_reprompt"]_vars

\* The utterances tagged as an information request or an availability
\* request.
DetourUtterances ==
    {u \in Vocabulary : Classify(u) \in INFO_LINES \cup {"availability"}}

\* C30: a turn with an information request (hours, address, prices) or an
\* availability request, in any stage, leaves a captured appointment type
\* as it is.
C30_DetoursKeepTheType ==
    [][\A c \in CallIds, u \in DetourUtterances,
          confidence \in Confidences :
          /\ SpeechTurn(c, u, confidence)
          /\ GetState(c).booking_appt_type # None
          => calls'[c].booking_appt_type = GetState(c).booking_appt_type]_vars

(***************************************************************************)
(* Silent turns (Spec).                                                    *)
(***************************************************************************)
\* A gather result without SpeechResult reaches a call that is not ended.
SilentTurn(c) ==
    /\ \E confidence \in Confidences : SpeechTurn(c, Silence, confidence)
    /\ ~GetState(c).ending
    /\ GetState(c).stage # "completed"

\* The booking sub-fields of a call state.
BookingFields(st) ==
    <<st.booking_appt_type, st.booking_date, st.booking_time,
      st.booking_available_times, st.booking_suggested_slot,
      st.requested_time, st.caller_name, st.booking_logged>>

\* C31: a silent turn adds exactly one to silence_count and leaves
\* retries, the booking sub-fields and, unless the call is ended by the
\* turn, the stage unchanged.
C31_SilenceLeavesRetriesAlone ==
    [][\A c \in CallIds :
          SilentTurn(c)
          => /\ calls'[c].silence_count = GetState(c).silence_count + 1
             /\ calls'[c].retries = GetState(c).retries
             /\ BookingFields(calls'[c]) = BookingFields(GetState(c))
             /\ resp'.kind # "goodbye" =>
                    calls'[c].stage = GetState(c).stage]_vars

\* max(int(max_silence_reprompts or 1), 1)
MaxSilence == MaxInt(MAX_SILENCE_REPROMPTS, 1)

\* The reprompt a silent turn speaks in a stage.
StageReprompt(stage) ==
    CASE stage = "intent"          -> "clarify"
      [] stage = "follow_up"       -> "anything_else"
      [] stage = "booking_type"    -> "booking_type_reprompt"
      [] stage = "booking_date"    -> "booking_date_reprompt"
      [] stage = "booking_time"    -> "booking_time_reprompt"
      [] stage = "booking_name"    -> "booking_name_reprompt"
      [] stage = "booking_confirm" -> "booking_confirm_reprompt"

\* C32: consecutive silent turns end the call within max_silence_reprompts
\* + 1 turns: each silent turn counts one more silence; up to the maximum
\* it is answered by the reprompt of the current stage, which stays, and
\* the turn after the maximum returns goodbye with stage completed; the
\* count never passes the maximum plus one.
C32_SilenceEndsTheCall ==
    /\ [](\A c \in DOMAIN calls :
             /\ calls[c].silence_count <= MaxSilence + 1
             /\ calls[c].silence_count = MaxSilence + 1 =>
                    calls[c].stage = "completed")
    /\ [][\A c \in CallIds :
             SilentTurn(c)
             => /\ calls'[c].silence_count = GetState(c).silence_count + 1
                /\ IF GetState(c).silence_count < MaxSilence
                   THEN /\ resp'.kind = "gather"
                        /\ resp'.prompt = StageReprompt(GetState(c).stage)
                        /\ calls'[c].stage = GetState(c).stage
                   ELSE /\ resp'.kind = "goodbye"
                        /\ calls'[c].stage = "completed"]_vars

\* The call was ended by the silent turn after the maximum.
C32_Witness ==
    /\ "CA1" \in DOMAIN calls
    /\ calls["CA1"].stage = "completed"
    /\ calls["CA1"].silence_count = MaxSilence + 1
    /\ calls["CA1"].booking_time # NoTime
    /\ resp.kind = "goodbye"

(***************************************************************************)
(* Endpoints and stages.                                                   *)
(***************************************************************************)
BookingStages ==
    {"booking_type", "booking_date", "booking_time", "booking_name",
     "booking_confirm"}

\* C37: a listen directive names /gather-booking exactly when the stage
\* stored for the call is a booking stage and /gather-intent exactly when
\* it is intent or follow_up.
C37_ListenEndpointMatchesStage ==
    \A c \in DOMAIN calls :
        resp.call = c /\ resp.kind = "gather" =>
            /\ resp.action = "/gather-booking"
                   <=> calls[c].stage \in BookingStages
            /\ resp.action = "/gather-intent"
                   <=> calls[c].stage \in {"intent", "follow_up"}

(***************************************************************************)
(* The transcript of a call.  persistence._TRANSCRIPTS maps a call         *)
(* identifier to its list of role-tagged lines; the handlers of main.py    *)
(* add the caller's words and the agent's reply of each turn, and the      *)
(* completion callback pops the list and writes it to a new file.  In this *)
(* specification transcripts[c] is the list itself, a line is the pair of  *)
(* its role and its text, calls[c] keeps the two flags the handlers test   *)
(* before they record anything, and the dialogue's choice of reply is left *)
(* open.                                                                   *)
(***************************************************************************)
\* The most lines the buffers and the files hold together.
MaxLines == 5

\* What the gateway transcribed for a turn ("" is silence) and what the
\* agent answers; NoReply is a turn whose handler raised before it answered.
SpeechResults == {"", "goodbye "}
NoReply == ""
GoodbyeText == "Goodbye"
ReplyTexts == {NoReply, "Anything else?", GoodbyeText}
OpeningText == "Hello"
ClarifyText == "Sorry?"

\* str.strip() and str.lower() on the texts above.
Strip(text) == IF text = "goodbye " THEN "goodbye" ELSE text
Lower(text) ==
    CASE text = "Goodbye" -> "goodbye"
      [] text = "Hello" -> "hello"
      [] text = "Sorry?" -> "sorry?"
      [] text = "Anything else?" -> "anything else?"
      [] OTHER -> text

LinesOf(buffers, call_sid) ==
    IF call_sid \in DOMAIN buffers THEN buffers[call_sid] ELSE <<>>

\* transcript_init(call_sid): the list of the call, emptied.
TranscriptInit(buffers, call_sid) == Put(buffers, call_sid, <<>>)

\* transcript_add that starts the list again at every line.
TranscriptAdd_KeepsLastLineOnly(buffers, call_sid, role, text) ==
    IF Strip(text) = "" THEN buffers
    ELSE Put(buffers, call_sid, <<[role |-> role, text |-> Strip(text)]>>)

\* transcript_add(call_sid, role, text)
TranscriptAdd(buffers, call_sid, role, text) ==
    LET cleaned == Strip(text)
        lines == LinesOf(buffers, call_sid)
    IN IF call_sid = None \/ cleaned = "" THEN buffers
       ELSE IF role = "Agent" /\ lines # <<>>
               /\ Lower(lines[Len(lines)].text) = Lower(cleaned)
            THEN Put(buffers, call_sid, lines)
            ELSE Put(buffers, call_sid,
                     Append(lines, [role |-> role, text |-> cleaned]))

\* transcript_pop(call_sid): the list handed out and the map without it.
TranscriptPop(buffers, call_sid) ==
    [lines |-> LinesOf(buffers, call_sid), buffers |-> Remove(buffers, call_sid)]

\* _next_transcript_index(): one more than the highest index of a file.
NextTranscriptIndex(written) ==
    IF written = <<>> THEN 1
    ELSE 1 + (CHOOSE m \in {written[i].index : i \in 1..Len(written)} :
                 \A i \in 1..Len(written) : written[i].index <= m)

\* save_transcript(call_sid, transcript): the files after the write.  A file
\* is known by its index; writing an index again replaces that file.
SaveTranscript(written, call_sid, lines) ==
    LET index == NextTranscriptIndex(written)
        file == [index |-> index, call_sid |-> call_sid, lines |-> lines]
    IN IF \E i \in 1..Len(written) : written[i].index = index
       THEN [i \in 1..Len(written) |->
                IF written[i].index = index THEN file ELSE written[i]]
       ELSE Append(written, file)

\* _initial_state(call_sid, form): the flags, and the emptied list.
InitialFlags == [greeted |-> FALSE, ending |-> FALSE]

LinesHeld(buffers) ==
    LET Sum[S \in SUBSET CallIds] ==
            IF S = {} THEN 0
            ELSE LET c == CHOOSE x \in S : TRUE
                 IN Len(LinesOf(buffers, c)) + Sum[S \ {c}]
        Written[i \in 0..Len(files)] ==
            IF i = 0 THEN 0 ELSE Len(files[i].lines) + Written[i - 1]
    IN Sum[CallIds] + Written[Len(files)]

HasRoom(buffers) == LinesHeld(buffers) <= MaxLines

\* _get_state(call_sid, form): the state of the call, created if absent.
FlagsOf(c) == IF c \in DOMAIN calls THEN calls[c] ELSE InitialFlags
BuffersAfterGetState(c) ==
    IF c \in DOMAIN calls THEN transcripts ELSE TranscriptInit(transcripts, c)

InitTranscript ==
    /\ table = InitialTable
    /\ bookings = <<>>
    /\ out = NoOut
    /\ procs = [p \in 1..NumProcs |-> IdleProc]
    /\ NoCalls

\* POST /voice
TranscriptVoice(c, speech_result) ==
    /\ LET state == FlagsOf(c)
           created == BuffersAfterGetState(c)
           heard == TranscriptAdd(created, c, "Caller", speech_result)
       IN IF state.ending
          THEN /\ calls' = Put(calls, c, state)
               /\ transcripts' = created
          ELSE /\ calls' = Put(calls, c, [state EXCEPT !.greeted = TRUE])
               /\ transcripts' =
                     TranscriptAdd(heard, c, "Agent",
                                   IF state.greeted THEN ClarifyText
                                   ELSE OpeningText)
    /\ HasRoom(transcripts')
    /\ UNCHANGED <<table, bookings, out, procs, files, callLog,
                   bookingRequests, ended, resp, gateway, late, store>>

\* POST /gather-intent and POST /gather-booking: the caller's words, then
\* the reply of the stage handler through _respond_with_gather or
\* _respond_with_goodbye.
TranscriptGather(c, speech_result, reply) ==
    /\ LET state == FlagsOf(c)
           created == BuffersAfterGetState(c)
           heard == TranscriptAdd(created, c, "Caller", speech_result)
       IN IF state.ending
          THEN /\ calls' = Put(calls, c, state)
               /\ transcripts' = created
          ELSE /\ calls' = Put(calls, c,
                               [state EXCEPT !.ending = (reply = GoodbyeText)])
               /\ transcripts' = TranscriptAdd(heard, c, "Agent", reply)
    /\ HasRoom(transcripts')
    /\ UNCHANGED <<table, bookings, out, procs, files, callLog,
                   bookingRequests, ended, resp, gateway, late, store>>

\* POST /status
TranscriptStatus(c, call_status) ==
    /\ IF call_status = "completed"
       THEN LET popped == TranscriptPop(BuffersAfterGetState(c), c)
            IN /\ Len(files) < MaxFiles
               /\ files' = SaveTranscript(files, c, popped.lines)
               /\ transcripts' = popped.buffers
               /\ calls' = Remove(calls, c)
       ELSE UNCHANGED <<files, transcripts, calls>>
    /\ UNCHANGED <<table, bookings, out, procs, callLog, bookingRequests,
                   ended, resp, gateway, late, store>>

NextTranscript ==
    \/ \E c \in CallIds, speech_result \in SpeechResults :
          TranscriptVoice(c, speech_result)
    \/ \E c \in CallIds, speech_result \in SpeechResults,
          reply \in ReplyTexts : TranscriptGather(c, speech_result, reply)
    \/ \E c \in CallIds, call_status \in Statuses :
          TranscriptStatus(c, call_status)

SpecTranscript == InitTranscript /\ [][NextTranscript]_vars

IsPrefix(s, t) == Len(s) <= Len(t) /\ SubSeq(t, 1, Len(s)) = s

\* The lines a step added to the list of call c.
Added(c) ==
    SubSeq(transcripts'[c], Len(LinesOf(transcripts, c)) + 1,
           Len(transcripts'[c]))

\* C33: while a call has a state (from its creation to its completion
\* flush) every step keeps the lines recorded so far as a prefix of its
\* transcript and adds at most the caller's line followed by the agent's
\* line; the flush writes exactly the recorded lines, and no step changes a
\* transcript file that was written.
C33_TranscriptOnlyGrows ==
    [][/\ \A c \in DOMAIN calls \cap DOMAIN calls' :
            /\ c \in DOMAIN transcripts /\ c \in DOMAIN transcripts'
            /\ IsPrefix(transcripts[c], transcripts'[c])
            /\ Len(Added(c)) <= 2
            /\ Len(Added(c)) = 2 =>
                   Added(c)[1].role = "Caller" /\ Added(c)[2].role = "Agent"
       /\ \A c \in DOMAIN calls \ DOMAIN calls' :
            /\ Len(files') = Len(files) + 1
            /\ files'[Len(files')].call_sid = c
            /\ files'[Len(files')].lines = transcripts[c]
       /\ \A i \in 1..Len(files) : i <= Len(files') /\ files'[i] = files[i]
      ]_vars

\* A call whose two-turn transcript was flushed and that has spoken again
\* since, next to the file of its first transcript.
C33_Witness ==
    /\ files # <<>>
    /\ files[1].call_sid = "CA1"
    /\ Len(files[1].lines) >= 3
    /\ "CA1" \in DOMAIN calls
    /\ LinesOf(transcripts, "CA1") # <<>>

\* The turn on which the handlers word the offer of the next available slot
\* has just been answered for call c: its date has no free time while the
\* table holds a free slot, and the handler called _next_available_slot().
OfferTurnAnswered(c) ==
    /\ c \in DOMAIN calls
    /\ resp.call = c
    /\ resp.route = "/gather-booking"
    /\ resp.kind = "fault"
    /\ calls[c].stage = "booking_date"
    /\ calls[c].booking_date # NoDate
    /\ calls[c].booking_available_times = <<>>
    /\ FindNextAvailable(table) # NoRow

C36_TimeStageHasOptions ==
    \A c \in DOMAIN calls :
        calls[c].stage = "booking_time" =>
            /\ calls[c].booking_date # NoDate
            /\ calls[c].booking_available_times # <<>>

\* A caller in booking_time was just reprompted with the times of the day.
C36_Witness ==
    /\ "CA1" \in DOMAIN calls
    /\ calls["CA1"].stage = "booking_time"
    /\ calls["CA1"].booking_date = 1
    /\ Len(calls["CA1"].booking_available_times) = 2
    /\ resp.prompt = "booking_time_reprompt"

\* C38: the failed name extractions that count toward the forced goodbye
\* are those since the call last entered booking_name: a step that enters
\* booking_name from another stage starts with no failure counted, and a
\* nameless turn in booking_name ends the call only when the failures
\* counted were already at the maximum.
C38_NameAttemptsCountThisVisitOnly ==
    [][\A c \in CallIds :
          /\ (GetState(c).stage # "booking_name"
              /\ c \in DOMAIN calls'
              /\ calls'[c].stage = "booking_name")
             => calls'[c].name_attempts = 0
          /\ (GetState(c).stage = "booking_name"
              /\ ~GetState(c).ending
              /\ \E u \in NamelessUtterances, confidence \in Confidences :
                    GatherBooking(c, u, confidence)
              /\ resp'.kind = "goodbye")
             => GetState(c).name_attempts = MaxNameAttempts
      ]_vars

\* C39: a row that is Booked keeps its patient name and its appointment
\* type through every later reserve_slot call, whichever row the call asks
\* for and also when several rows share one (date, start_time).
C39_BookedRowKeepsPatient ==
    [][out'.op = "reserve_slot" =>
          \A i \in DOMAIN table :
              table[i].status = "Booked" =>
                  /\ i \in DOMAIN table'
                  /\ table'[i].status = "Booked"
                  /\ table'[i].patient_name = table[i].patient_name
                  /\ table'[i].appointment_type = table[i].appointment_type
      ]_vars

(***************************************************************************)
(* SpecFlush: the completion callbacks of different calls, processed at    *)
(* the same time.  status_callback pops the transcript of its call under   *)
(* the transcript lock and calls save_transcript, which reads the clock,   *)
(* scans the directory for the highest index (_next_transcript_index) and  *)
(* opens the file of the next index for writing.  No lock is held from the *)
(* scan to the write, so the steps of different callbacks interleave; the  *)
(* scan and the write of a file are one step each.  A file is known by its *)
(* path, the index together with the minute of the clock.                  *)
(***************************************************************************)
\* The minutes datetime.now() can show while the callbacks run.
Minutes == {0, 1}

\* The call each callback is for.
FlushCallOf(p) == CASE p = 1 -> "CA1" [] p = 2 -> "CA2" [] OTHER -> "CA3"
FlushCallIds == {FlushCallOf(p) : p \in 1..NumProcs}

\* The transcripts the calls have recorded when they end.
EndedTranscripts ==
    {<<[role |-> "Agent", text |-> OpeningText]>>,
     <<[role |-> "Agent", text |-> OpeningText],
       [role |-> "Caller", text |-> "goodbye"]>>}

\* The directory before the callbacks: empty, or holding one earlier file.
EarlierFiles ==
    {<<>>} \cup {<<[path |-> <<index, 0>>, call_sid |-> "CA0",
                    lines |-> <<[role |-> "Agent", text |-> OpeningText]>>]>> :
                 index \in 1..2}

IdleFlush(p) ==
    [pc |-> "idle", call_sid |-> FlushCallOf(p), lines |-> <<>>, now |-> 0,
     index |-> 0]

InitFlush ==
    /\ table = InitialTable
    /\ bookings = <<>>
    /\ out = NoOut
    /\ procs = [p \in 1..NumProcs |-> IdleFlush(p)]
    /\ calls = [c \in FlushCallIds |-> InitialFlags]
    /\ transcripts \in [FlushCallIds -> EndedTranscripts]
    /\ files \in EarlierFiles
    /\ callLog = <<>>
    /\ bookingRequests = <<>>
    /\ ended = {}
    /\ resp = NoResp
    /\ gateway = [c \in CallIds |-> "none"]
    /\ late = 0
    /\ store = IdleStore

\* _next_transcript_index() on a directory of files known by their paths.
NextIndexIn(written) ==
    IF written = <<>> THEN 1
    ELSE 1 + (CHOOSE m \in {written[i].path[1] : i \in 1..Len(written)} :
                 \A i \in 1..Len(written) : written[i].path[1] <= m)

\* path.open("w") and the lines written: a new file, or the file of that
\* path replaced.
WriteFile(written, path, call_sid, lines) ==
    LET file == [path |-> path, call_sid |-> call_sid, lines |-> lines]
    IN IF \E i \in 1..Len(written) : written[i].path = path
       THEN [i \in 1..Len(written) |->
                IF written[i].path = path THEN file ELSE written[i]]
       ELSE Append(written, file)

\* status_callback up to the clock reading of save_transcript.
FlushPop(p, now) ==
    /\ procs[p].pc = "idle"
    /\ LET popped == TranscriptPop(transcripts, procs[p].call_sid)
       IN /\ transcripts' = popped.buffers
          /\ procs' = [procs EXCEPT ![p].pc = "popped",
                                    ![p].lines = popped.lines,
                                    ![p].now = now]
    /\ UNCHANGED <<table, bookings, out, calls, files, callLog,
                   bookingRequests, ended, resp, gateway, late, store>>

\* index = _next_transcript_index()
FlushScan(p) ==
    /\ procs[p].pc = "popped"
    /\ procs' = [procs EXCEPT ![p].pc = "scanned",
                              ![p].index = NextIndexIn(files)]
    /\ UNCHANGED <<table, bookings, out, calls, transcripts, files, callLog,
                   bookingRequests, ended, resp, gateway, late, store>>

\* The file written, the summary appended and the state removed.
FlushWrite(p) ==
    /\ procs[p].pc = "scanned"
    /\ LET path == <<procs[p].index, procs[p].now>>
       IN /\ files' = WriteFile(files, path, procs[p].call_sid, procs[p].lines)
          /\ callLog' = Append(callLog, [call_sid |-> procs[p].call_sid,
                                         transcript_file |-> path])
    /\ calls' = Remove(calls, procs[p].call_sid)
    /\ procs' = [procs EXCEPT ![p].pc = "done"]
    /\ UNCHANGED <<table, bookings, out, transcripts, bookingRequests, ended,
                   resp, gateway, late, store>>

NextFlush ==
    \/ \E p \in 1..NumProcs, now \in Minutes : FlushPop(p, now)
    \/ \E p \in 1..NumProcs : FlushScan(p)
    \/ \E p \in 1..NumProcs : FlushWrite(p)

SpecFlush == InitFlush /\ [][NextFlush]_vars

\* C40: when the completion callbacks of different calls run at the same
\* time, every finished callback has its call's transcript in the file its
\* summary names, and no two calls share a transcript path.
C40_EachCallHasItsOwnFile ==
    /\ \A i, j \in DOMAIN callLog :
          i # j => callLog[i].transcript_file # callLog[j].transcript_file
    /\ \A p \in 1..NumProcs :
          procs[p].pc = "done" =>
              \E k \in DOMAIN files :
                  /\ files[k].call_sid = procs[p].call_sid
                  /\ files[k].lines = procs[p].lines

====
